---- MODULE Spec2Model ----
(***************************************************************************)
(* A model of the Embedded Targets Manager extension: the target runner    *)
(* (scheduler, class TargetRunner of runner/targetRunner.ts), the state    *)
(* store (class StateStore of state/stateStore.ts), the dashboard          *)
(* controller that joins them (dashboardController.ts) and the process     *)
(* collaborators they await (vscode.tasks.executeTask, the task process    *)
(* end event, runCommandWithExitCode).                                     *)
(*                                                                         *)
(* The extension host is a single-threaded event loop: every action below  *)
(* is one run of a handler from its entry (or from the await it resumes    *)
(* after) to its next await or its return.                                 *)
(***************************************************************************)
EXTENDS Integers, Sequences, FiniteSets, TLC

(***************************************************************************)
(* Bounds of the model.                                                    *)
(***************************************************************************)
\* Requests the environment may get accepted by enqueue in one behaviour.
MaxRequests == 3
\* Largest value the max-parallel setting takes.
MaxCap == 2
\* Task-data events delivered to one terminal execution.
MaxChunks == 1
\* Requests accepted in one behaviour of the specifications with fairness.
MaxLiveRequests == 2
\* Requests accepted in one behaviour of ClassifySpec.
MaxClassifiedRequests == 2
\* Longest module list and longest target list given to the state store.
MaxListLen == 2
\* StateStore calls made in one behaviour of StoreSpec.
MaxCalls == 4
\* RerunSpec calls rerunFailed while fewer requests were accepted.
MaxRerunRequests == 5
\* ConfigureSpec gives a configure command while fewer were given.
MaxConfigures == 2
\* A CMakeCache.txt has at most this many lines.
MaxLines == 2
\* A modules root has at most this many entries.
MaxEntries == 2
\* A directory name has at most this many characters.
MaxNameLen == 1
\* ControllerSpec gives a refresh or a run command while the calls of refresh
\* (the constructor's included) and the accepted requests are fewer together.
MaxCommands == 3
MaxBulkRequests == 3
\* SettleSpec lets the time pass in steps of at most TickMs milliseconds.
TickMs == 100

(***************************************************************************)
(* The world the runner works on.                                          *)
(***************************************************************************)
Modules == {"m1", "m2"}
Targets == {"t1"}

\* JavaScript's undefined, for an exit code that is unknown or absent.
Undefined == -1
ExitCodes == {0, 1, Undefined}

\* One element of an output stands for a block of 100 000 characters of
\* text, named by what the classifier's patterns find in it.
Blocks == {"text", "warning:", "error:"}
\* maxOutputSize = 200_000 characters, in blocks.
maxOutputSize == 2

\* os.cpus().length, the job count when the makeJobs setting is 'auto'.
CpuCount == 2

\* The generator stored for each module, which decides useNinja.
ModuleUsesNinja == [m \in Modules |-> m = "m1"]

\* ModuleInfo.path and ModuleInfo.name of a module id.
ModulePath(moduleId) == <<"path", moduleId>>
ModuleName(moduleId) == <<"name", moduleId>>

(***************************************************************************)
(* JavaScript Map: a function on the keys present.                         *)
(***************************************************************************)
EmptyMap == [x \in {} |-> 0]
Has(map, key) == key \in DOMAIN map
Put(map, key, value) == [x \in (DOMAIN map) \cup {key} |-> IF x = key THEN value ELSE map[x]]
Del(map, key) == [x \in (DOMAIN map) \ {key} |-> map[x]]

(***************************************************************************)
(* State.                                                                  *)
(***************************************************************************)
VARIABLES
  pending,             \* TargetRunner.pending: RunRequest[]
  running,             \* TargetRunner.running: Map<key, RunningEntry>
  maxParallel,         \* TargetRunner.maxParallel
  taskNames,           \* TargetRunner.taskNames
  modulePaths,         \* TargetRunner.modulePaths
  runStartedAt,        \* TargetRunner.runStartedAt
  autoCloseOnSuccess,  \* TargetRunner.autoCloseOnSuccess
  taskOutput,          \* TargetRunner.taskOutput
  execs,               \* the executions begun by execute(), in dispatch order
  fired,               \* the updates fired by the handler that ran last
  ended,               \* what the handler that ran last was given, if a process ended
  issued,              \* number of requests accepted so far
  modules,             \* StateStore.modules: ModuleState[]
  targets,             \* StateStore.targets: TargetDefinition[] (the names)
  calls,               \* number of StateStore calls made from outside the controller
  called,              \* the StateStore call the last step made from outside, if any
  announced,           \* the keys with a 'running' update since their last completion update
  runAllQueues,        \* DashboardController.runAllQueues: Map<moduleId, string[]>
  runAllActive,        \* DashboardController.runAllActive: Map<moduleId, string>
  runModuleQueues,     \* DashboardController.runModuleQueues
  runModuleActive,     \* DashboardController.runModuleActive
  refreshes,           \* the calls of DashboardController.refresh and where each stands
  view,                \* the state pushState gave the webview last
  cmakeCache,          \* the file system: the modules whose out/CMakeCache.txt exists
  configures,          \* the calls of the configure commands and where each stands
  configureResolvers,  \* DashboardController.configureResolvers: Map<moduleId, resolve>
  configureTaskNames,  \* DashboardController.configureTaskNames
  generatorCall,       \* a call of selectGenerator: what it is given and what it returned
  discoverCall,        \* a call of discoverModules: what it is given and what it returned
  settleWait           \* a call of waitForDiagnosticsSettled: its closure and its timers

vars == <<pending, running, maxParallel, taskNames, modulePaths, runStartedAt,
          autoCloseOnSuccess, taskOutput, execs, fired, ended, issued,
          modules, targets, calls, called, announced,
          runAllQueues, runAllActive, runModuleQueues, runModuleActive, refreshes,
          view, cmakeCache, configures, configureResolvers, configureTaskNames,
          generatorCall, discoverCall, settleWait>>

\* `ended` when the handler that ran last was not given the end of a process.
NoEnd ==
  [kind |-> "none", exec |-> 0, exitCode |-> Undefined, output |-> <<>>,
   errors |-> 0, warnings |-> 0, closed |-> FALSE]

\* `view` before the first pushState.
NoView == [targets |-> <<>>, modules |-> <<>>]

\* A file that does not exist.
NoFile == [exists |-> FALSE, readable |-> FALSE, lines |-> <<>>]
\* A directory that does not exist.
NoDirectory == [exists |-> FALSE, readable |-> FALSE, entries |-> <<>>]
\* A timer that is not set, or was cleared, or has fired.
NoTimeout == -1
\* `settleWait` when waitForDiagnosticsSettled is not called.  Times are
\* in milliseconds, counted from the call.
NoSettleWait ==
  [called |-> FALSE, time |-> 0, startedAt |-> 0, sawChange |-> FALSE,
   quietTimeout |-> NoTimeout, maxTimeout |-> NoTimeout, initialTimeout |-> NoTimeout,
   listening |-> FALSE, resolved |-> 0,
   heard |-> "none",          \* what the event handled in this step was about
   lastChange |-> NoTimeout,  \* when the last event for the module path came
   endedAt |-> NoTimeout]     \* when the promise was resolved
\* `generatorCall` and `discoverCall` when the function is not called.
NoGeneratorCall ==
  [buildSystem |-> "auto", cacheFile |-> NoFile, ninja |-> "missing",
   returned |-> FALSE, generator |-> "unset", readCache |-> FALSE, probed |-> FALSE]
NoDiscoverCall ==
  [root |-> NoDirectory, excludedModules |-> {}, returned |-> FALSE, modules |-> <<>>]

\* `called` when the last step was not a call of the StateStore from outside.
NoCall == [op |-> "none", moduleId |-> "", targetName |-> "", list |-> <<>>]

\* The fields of the runner, of the state store and of the controller as
\* one value, which the handlers below transform.
Runner ==
  [pending |-> pending, running |-> running, maxParallel |-> maxParallel,
   taskNames |-> taskNames, modulePaths |-> modulePaths, runStartedAt |-> runStartedAt,
   autoCloseOnSuccess |-> autoCloseOnSuccess, taskOutput |-> taskOutput,
   execs |-> execs, fired |-> <<>>, ended |-> NoEnd, issued |-> issued,
   modules |-> modules, targets |-> targets, calls |-> calls, called |-> NoCall,
   announced |-> announced,
   runAllQueues |-> runAllQueues, runAllActive |-> runAllActive,
   runModuleQueues |-> runModuleQueues, runModuleActive |-> runModuleActive,
   refreshes |-> refreshes, view |-> view, cmakeCache |-> cmakeCache,
   configures |-> configures, configureResolvers |-> configureResolvers,
   configureTaskNames |-> configureTaskNames,
   generatorCall |-> generatorCall, discoverCall |-> discoverCall,
   settleWait |-> settleWait]

\* The handler has run: the variables take the fields of s, computed once.
Commit(s) ==
  \E next \in {s} :
    /\ pending' = next.pending
    /\ running' = next.running
    /\ maxParallel' = next.maxParallel
    /\ taskNames' = next.taskNames
    /\ modulePaths' = next.modulePaths
    /\ runStartedAt' = next.runStartedAt
    /\ autoCloseOnSuccess' = next.autoCloseOnSuccess
    /\ taskOutput' = next.taskOutput
    /\ execs' = next.execs
    /\ fired' = next.fired
    /\ ended' = next.ended
    /\ issued' = next.issued
    /\ modules' = next.modules
    /\ targets' = next.targets
    /\ calls' = next.calls
    /\ called' = next.called
    /\ announced' = next.announced
    /\ runAllQueues' = next.runAllQueues
    /\ runAllActive' = next.runAllActive
    /\ runModuleQueues' = next.runModuleQueues
    /\ runModuleActive' = next.runModuleActive
    /\ refreshes' = next.refreshes
    /\ view' = next.view
    /\ cmakeCache' = next.cmakeCache
    /\ configures' = next.configures
    /\ configureResolvers' = next.configureResolvers
    /\ configureTaskNames' = next.configureTaskNames
    /\ generatorCall' = next.generatorCall
    /\ discoverCall' = next.discoverCall
    /\ settleWait' = next.settleWait

(***************************************************************************)
(* StateStore.  An object (RunResult, ConfigureResult) is a function on    *)
(* the property names it has; `runs` keeps its entries in the order their  *)
(* keys were created, which is the order Object.entries walks them in.     *)
(***************************************************************************)
\* The target names a dashboard's target list is made of.
TargetNames == {"t1", "t2"}
\* Date.now(), the clock left out.
Now == "now"
\* ModuleState.generator when it is not set.
NoGenerator == "unset"
\* `{ status: 'idle' }`
Idle == [status |-> "idle"]

\* `{ ...object, ...update }`
Merge(object, update) == update @@ object

\* Array.prototype.find on `modules` by module id: the first index, 0 if none.
find(moduleStates, moduleId) ==
  IF \E i \in 1..Len(moduleStates) : moduleStates[i].module = moduleId
    THEN CHOOSE i \in 1..Len(moduleStates) :
           /\ moduleStates[i].module = moduleId
           /\ \A j \in 1..(i - 1) : moduleStates[j].module # moduleId
    ELSE 0

RunsHas(runs, name) == \E i \in 1..Len(runs) : runs[i].name = name
\* runs[name], an object without properties when the key is missing.
RunsGet(runs, name) ==
  IF RunsHas(runs, name)
    THEN runs[CHOOSE i \in 1..Len(runs) : runs[i].name = name].result
    ELSE EmptyMap
\* runs[name] = result: an existing key keeps its place, a new one goes last.
RunsSet(runs, name, result) ==
  IF RunsHas(runs, name)
    THEN [i \in 1..Len(runs) |->
            IF runs[i].name = name THEN [name |-> name, result |-> result] ELSE runs[i]]
    ELSE Append(runs, [name |-> name, result |-> result])

\* A back-fill without the `??`: it assigns idle to every name.
RECURSIVE BackFill_overwrites(_, _)
BackFill_overwrites(runs, names) ==
  IF names = <<>> THEN runs
  ELSE BackFill_overwrites(RunsSet(runs, Head(names), Idle), Tail(names))

\* for (target of names) runs[target.name] = runs[target.name] ?? { status: 'idle' }
RECURSIVE BackFill(_, _)
BackFill(runs, names) ==
  IF names = <<>> THEN runs
  ELSE BackFill(IF RunsHas(runs, Head(names)) THEN runs
                ELSE RunsSet(runs, Head(names), Idle),
                Tail(names))

\* for (target of names) runs[target.name] = { status: 'idle' }
RECURSIVE Fill(_, _)
Fill(runs, names) ==
  IF names = <<>> THEN runs
  ELSE Fill(RunsSet(runs, Head(names), Idle), Tail(names))

\* A setTargets that replaces the list and leaves the modules alone.
setTargets_replaces(s, list) == [s EXCEPT !.targets = list]

setTargets(s, list) ==
  [s EXCEPT !.targets = list,
            !.modules = [i \in 1..Len(s.modules) |->
                           [s.modules[i] EXCEPT !.runs = BackFill(@, list)]]]

\* The ModuleState setModules creates for a module.
NewModuleState(module) ==
  [module |-> module, availability |-> EmptyMap, runs |-> <<>>,
   generator |-> NoGenerator, needsConfigure |-> FALSE, configure |-> Idle]

\* A setModules that keeps the state of a module the store already holds.
setModules_keeps(s, list) ==
  [s EXCEPT !.modules = [i \in 1..Len(list) |->
                           IF \E j \in 1..Len(s.modules) : s.modules[j].module = list[i]
                             THEN s.modules[CHOOSE j \in 1..Len(s.modules) :
                                              s.modules[j].module = list[i]]
                             ELSE [NewModuleState(list[i]) EXCEPT !.runs = Fill(@, s.targets)]]]

setModules(s, list) ==
  [s EXCEPT !.modules = [i \in 1..Len(list) |->
                           [NewModuleState(list[i]) EXCEPT !.runs = Fill(@, s.targets)]]]

setModuleGenerator(s, moduleId, generator) ==
  LET i == find(s.modules, moduleId)
  IN  IF i # 0 THEN [s EXCEPT !.modules[i].generator = generator] ELSE s

setNeedsConfigure(s, moduleId, needsConfigure) ==
  LET i == find(s.modules, moduleId)
  IN  IF i # 0 THEN [s EXCEPT !.modules[i].needsConfigure = needsConfigure] ELSE s

setAvailability(s, moduleId, targetName, available) ==
  LET i == find(s.modules, moduleId)
  IN  IF i # 0 THEN [s EXCEPT !.modules[i].availability = Put(@, targetName, available)]
      ELSE s

\* An updateRun that creates the module it does not find.
updateRun_upserts(s, moduleId, targetName, update) ==
  LET i == IF \E k \in 1..Len(s.modules) : s.modules[k].module = moduleId
             THEN CHOOSE k \in 1..Len(s.modules) : s.modules[k].module = moduleId
             ELSE Len(s.modules) + 1
      s1 == IF i > Len(s.modules)
              THEN [s EXCEPT !.modules = Append(@, [module |-> moduleId, availability |-> EmptyMap,
                                                    runs |-> <<>>, generator |-> "unset",
                                                    needsConfigure |-> FALSE,
                                                    configure |-> [status |-> "idle"]])]
              ELSE s
  IN  [s1 EXCEPT !.modules[i].runs =
                   RunsSet(@, targetName, Merge(RunsGet(@, targetName), update))]

updateRun(s, moduleId, targetName, update) ==
  LET i == find(s.modules, moduleId)
  IN  IF i = 0 THEN s
      ELSE [s EXCEPT !.modules[i].runs =
                       RunsSet(@, targetName, Merge(RunsGet(@, targetName), update))]

updateConfigure(s, moduleId, update) ==
  LET i == find(s.modules, moduleId)
  IN  IF i = 0 THEN s
      ELSE [s EXCEPT !.modules[i].configure = Merge(@, update)]

getModuleState(s, moduleId) == find(s.modules, moduleId)

\* hasCMakeCache(module.path): out/CMakeCache.txt is a file.
hasCMakeCache(s, moduleId) == moduleId \in s.cmakeCache

\* DashboardController.pushState: viewProvider.setState(stateStore.getState())
pushState(s) == [s EXCEPT !.view = [targets |-> s.targets, modules |-> s.modules]]

\* Array.prototype.flat on a sequence of sequences.
RECURSIVE Flat(_)
Flat(lists) == IF lists = <<>> THEN <<>> ELSE Head(lists) \o Flat(Tail(lists))

IsFailed(entry) == entry.result.status = "failed"
getFailedTargets(s) ==
  Flat([i \in 1..Len(s.modules) |->
          LET failed == SelectSeq(s.modules[i].runs, IsFailed)
          IN  [j \in 1..Len(failed) |->
                 [module |-> s.modules[i].module, target |-> failed[j].name]]])

\* moduleState.availability[name], as a condition.
Available(moduleState, name) ==
  Has(moduleState.availability, name) /\ moduleState.availability[name]

\* A getAllTargets that walks the runs entries, as getFailedTargets does.
getAllTargets_byRuns(s) ==
  Flat([i \in 1..Len(s.modules) |->
          LET IsAvailableRun(entry) == Available(s.modules[i], entry.name)
              all == SelectSeq(s.modules[i].runs, IsAvailableRun)
          IN  [j \in 1..Len(all) |-> [module |-> s.modules[i].module, target |-> all[j].name]]])

getAllTargets(s) ==
  Flat([i \in 1..Len(s.modules) |->
          LET IsAvailable(name) == Available(s.modules[i], name)
              all == SelectSeq(s.targets, IsAvailable)
          IN  [j \in 1..Len(all) |-> [module |-> s.modules[i].module, target |-> all[j]]]])

(***************************************************************************)
(* Requests, as DashboardController.enqueueRun builds them.                *)
(***************************************************************************)
\* The two option sets the controller passes: a single run (terminal) and a
\* bulk run (silent, terminal closed on success).
RunOptions ==
  {[autoCloseOnSuccess |-> FALSE, runInTerminal |-> TRUE],
   [autoCloseOnSuccess |-> TRUE, runInTerminal |-> FALSE]}

\* id stands for the identity of the request object.
enqueueRun(moduleId, target, options, id) ==
  [id |-> id, module |-> moduleId, target |-> target,
   useNinja |-> ModuleUsesNinja[moduleId], makeJobs |-> CpuCount,
   autoCloseOnSuccess |-> options.autoCloseOnSuccess,
   runInTerminal |-> options.runInTerminal]

getKey(moduleId, target) == <<moduleId, target>>
getTaskName(moduleName, target) == <<moduleName, target>>
KeyOf(request) == getKey(request.module, request.target)
Keys == {getKey(m, t) : m \in Modules, t \in Targets}

\* getTargetCommand / createTargetTask: the command line a request is run with.
getTargetCommand(moduleId, target, useNinja, makeJobs) ==
  [command |-> IF useNinja THEN "ninja" ELSE "make",
   jobs |-> IF useNinja THEN 0 ELSE makeJobs,
   target |-> target,
   cwd |-> <<ModulePath(moduleId), "out">>]

NoCommand == [command |-> "", jobs |-> 0, target |-> "", cwd |-> <<>>]

(***************************************************************************)
(* Status classification.                                                  *)
(***************************************************************************)
errorPattern(output) == \E i \in 1..Len(output) : output[i] = "error:"
warningPattern(output) == \E i \in 1..Len(output) : output[i] = "warning:"

resolveOutputStatus(exitCode, output) ==
  IF exitCode # 0 THEN "failed"
  ELSE IF output = <<>> THEN "success"
  ELSE IF errorPattern(output) THEN "failed"
  ELSE IF warningPattern(output) THEN "warning"
  ELSE "success"

\* resolveDiagnosticsStatus, given the counts getDiagnosticsCounts returns
\* once the settle-wait is over.
resolveDiagnosticsStatus(current) ==
  IF current.errors > 0 THEN "failed"
  ELSE IF current.warnings > 0 THEN "warning"
  ELSE "success"

\* The last maxOutputSize blocks of text.
Slice(text) ==
  IF Len(text) > maxOutputSize
    THEN SubSeq(text, Len(text) - maxOutputSize + 1, Len(text))
    ELSE text

(***************************************************************************)
(* Executions.  execute() appends one record; the record follows the       *)
(* request through a silent run, a task launch, the task's process and the *)
(* diagnostics settle-wait.                                                *)
(*   phase "silent"    runCommandWithExitCode is awaited                   *)
(*   phase "launching" vscode.tasks.executeTask is awaited                 *)
(*   phase "task"      the task is registered and its process runs         *)
(*   phase "settling"  handleTaskEnd awaits resolveDiagnosticsStatus       *)
(*   phase "done"      the completion update was fired                     *)
(***************************************************************************)
NewExec(request) ==
  [request |-> request, phase |-> "new", escalated |-> FALSE,
   command |-> NoCommand,      \* what the silent process was started with
   task |-> NoCommand,         \* what the terminal task was created with
   terminated |-> FALSE,       \* TaskExecution.terminate() was called
   stopped |-> FALSE,          \* the controller's stopAll ran while this ran silently
   chunks |-> 0,               \* task-data events delivered
   exitCode |-> Undefined,     \* handleTaskEnd's event.exitCode while it waits
   output |-> <<>>]            \* handleTaskEnd's output while it waits

\* The controller's listener of the runner's updates, defined below.
RECURSIVE onDidUpdate(_, _)

\* this.updates.fire(update): the listener runs before fire returns.
Fire(s, update) ==
  onDidUpdate([s EXCEPT !.fired = Append(@, update),
                        !.announced = IF update.status = "running"
                                        THEN @ \cup {<<update.moduleId, update.target>>}
                                        ELSE @ \ {<<update.moduleId, update.target>>}],
              update)

RunningUpdate(request) ==
  [moduleId |-> request.module, target |-> request.target,
   status |-> "running", exitCode |-> Undefined]

(***************************************************************************)
(* TargetRunner's handlers, each up to its next await.                     *)
(***************************************************************************)
\* executeInTerminal up to `await vscode.tasks.executeTask(task)`.
executeInTerminal(s, request, key, e) ==
  [s EXCEPT !.taskOutput = Put(@, key, <<>>),
            !.execs[e].task = getTargetCommand(request.module, request.target,
                                               request.useNinja, request.makeJobs),
            !.execs[e].phase = "launching"]

\* executeInTerminal from the return of executeTask: the entry in `running`.
executeInTerminalResume(s, e) ==
  LET key == KeyOf(s.execs[e].request)
  IN  [s EXCEPT !.running = Put(@, key, [kind |-> "task", execution |-> e]),
                !.execs[e].phase = "task"]

\* executeSilently up to `await runCommandWithExitCode(command, args, cwd)`.
executeSilently(s, request, key, e) ==
  [s EXCEPT !.execs[e].command = getTargetCommand(request.module, request.target,
                                                  request.useNinja, request.makeJobs),
            !.execs[e].phase = "silent"]

\* An execute that runs every request silently first, whatever its mode.
execute_silently(s, request) ==
  LET key == KeyOf(request)
      e == Len(s.execs) + 1
      s1 == Fire([s EXCEPT !.execs = Append(@, NewExec(request))], RunningUpdate(request))
      s2 == [s1 EXCEPT !.modulePaths = Put(@, key, ModulePath(request.module)),
                       !.runStartedAt = Put(@, key, e),
                       !.taskOutput = Put(@, key, <<>>)]
  IN  executeSilently([s2 EXCEPT !.running = Put(@, key, [kind |-> "silent", execution |-> 0])],
                      request, key, e)

\* execute up to the first await of the mode it chooses.
execute(s, request) ==
  LET key == KeyOf(request)
      e == Len(s.execs) + 1
      s1 == Fire([s EXCEPT !.execs = Append(@, NewExec(request))], RunningUpdate(request))
      s2 == [s1 EXCEPT !.modulePaths = Put(@, key, ModulePath(request.module)),
                       !.runStartedAt = Put(@, key, e),
                       !.taskOutput = Put(@, key, <<>>)]
  IN  IF request.runInTerminal = FALSE
        THEN executeSilently([s2 EXCEPT !.running = Put(@, key, [kind |-> "silent", execution |-> 0])],
                             request, key, e)
        ELSE executeInTerminal(s2, request, key, e)

\* A dispatch loop that pops the newest pending request.
RECURSIVE kick_newest(_)
kick_newest(s) ==
  IF Cardinality(DOMAIN s.running) < s.maxParallel /\ Len(s.pending) > 0
    THEN kick_newest(execute([s EXCEPT !.pending = SubSeq(@, 1, Len(@) - 1)],
                             s.pending[Len(s.pending)]))
    ELSE s

RECURSIVE kick(_)
kick(s) ==
  IF Cardinality(DOMAIN s.running) < s.maxParallel /\ Len(s.pending) > 0
    THEN kick(execute([s EXCEPT !.pending = Tail(@)], Head(s.pending)))
    ELSE s

\* An enqueue that takes a request whatever is queued or running.
enqueue_always(s, request) ==
  LET key == KeyOf(request)
  IN  kick([s EXCEPT !.taskNames = Put(@, key, getTaskName(ModuleName(request.module), request.target)),
                     !.autoCloseOnSuccess = Put(@, key, request.autoCloseOnSuccess),
                     !.pending = Append(@, request)])

enqueue(s, request) ==
  LET key == KeyOf(request)
  IN  IF Has(s.running, key) \/ \E i \in 1..Len(s.pending) : KeyOf(s.pending[i]) = key
        THEN s
        ELSE kick([s EXCEPT !.taskNames = Put(@, key, getTaskName(ModuleName(request.module), request.target)),
                            !.autoCloseOnSuccess = Put(@, key, request.autoCloseOnSuccess),
                            !.pending = Append(@, request)])

stopAll(s) ==
  LET tasks == {s.running[k].execution : k \in {x \in DOMAIN s.running : s.running[x].kind = "task"}}
  IN  [s EXCEPT !.execs = [e \in DOMAIN s.execs |->
                             IF e \in tasks THEN [s.execs[e] EXCEPT !.terminated = TRUE]
                                            ELSE s.execs[e]],
                !.pending = <<>>]

\* A setMaxParallel that enforces a lower cap at once by stopping the work.
setMaxParallel_stops(s, n) ==
  IF n < Cardinality(DOMAIN s.running)
    THEN stopAll([s EXCEPT !.maxParallel = n])
    ELSE kick([s EXCEPT !.maxParallel = n])

setMaxParallel(s, n) == kick([s EXCEPT !.maxParallel = n])

\* closeTaskTerminal disposes the terminal named taskNames[key], if any.
closeTaskTerminal(s, key) == Has(s.taskNames, key)

\* A handleTaskEnd that does not run the dispatch loop when it is done.
handleTaskEndRest_nokick(s, e, key, exitCode, status, output, current) ==
  LET status2 == IF status = "success" /\ output # <<>>
                   THEN resolveOutputStatus(0, output) ELSE status
      close == /\ status2 = "success"
               /\ Has(s.autoCloseOnSuccess, key) /\ s.autoCloseOnSuccess[key]
               /\ closeTaskTerminal(s, key)
      s1 == Fire(s, [moduleId |-> key[1], target |-> key[2],
                     status |-> status2, exitCode |-> exitCode])
      s2 == [s1 EXCEPT !.modulePaths = Del(@, key),
                       !.runStartedAt = Del(@, key),
                       !.autoCloseOnSuccess = Del(@, key),
                       !.taskOutput = Del(@, key),
                       !.execs[e].phase = "done",
                       !.execs[e].exitCode = Undefined,
                       !.execs[e].output = <<>>,
                       !.ended = [kind |-> "task", exec |-> e, exitCode |-> exitCode,
                                  output |-> output, errors |-> current.errors,
                                  warnings |-> current.warnings, closed |-> close]]
  IN  s2

\* handleTaskEnd from `if (status === 'success' && output)` to its end.
handleTaskEndRest(s, e, key, exitCode, status, output, current) ==
  LET status2 == IF status = "success" /\ output # <<>>
                   THEN resolveOutputStatus(0, output) ELSE status
      close == /\ status2 = "success"
               /\ Has(s.autoCloseOnSuccess, key) /\ s.autoCloseOnSuccess[key]
               /\ closeTaskTerminal(s, key)
      s1 == Fire(s, [moduleId |-> key[1], target |-> key[2],
                     status |-> status2, exitCode |-> exitCode])
      s2 == [s1 EXCEPT !.modulePaths = Del(@, key),
                       !.runStartedAt = Del(@, key),
                       !.autoCloseOnSuccess = Del(@, key),
                       !.taskOutput = Del(@, key),
                       !.execs[e].phase = "done",
                       !.execs[e].exitCode = Undefined,
                       !.execs[e].output = <<>>,
                       !.ended = [kind |-> "task", exec |-> e, exitCode |-> exitCode,
                                  output |-> output, errors |-> current.errors,
                                  warnings |-> current.warnings, closed |-> close]]
  IN  kick(s2)

\* handleTaskEnd for the end of the process of execution e, up to the await
\* of resolveDiagnosticsStatus or, when that is skipped, to its end.
\* `current` is what getDiagnosticsCounts would return at this moment.
handleTaskEnd(s, e, exitCode, current) ==
  LET definition == s.execs[e].request
      key == getKey(definition.module, definition.target)
      s1 == [s EXCEPT !.running = Del(@, key)]
      modulePath == Has(s1.modulePaths, key)
      output == IF Has(s1.taskOutput, key) THEN s1.taskOutput[key] ELSE <<>>
      status == IF exitCode = 0 THEN "success" ELSE "failed"
  IN  IF status = "success" /\ modulePath
        THEN [s1 EXCEPT !.execs[e].phase = "settling",
                        !.execs[e].exitCode = exitCode,
                        !.execs[e].output = output]
        ELSE handleTaskEndRest(s1, e, key, exitCode, status, output, current)

\* handleTaskEnd from the return of resolveDiagnosticsStatus, which read
\* `current` from getDiagnosticsCounts.
handleTaskEndSettled(s, e, current) ==
  LET definition == s.execs[e].request
      key == getKey(definition.module, definition.target)
  IN  handleTaskEndRest(s, e, key, s.execs[e].exitCode, resolveDiagnosticsStatus(current),
                        s.execs[e].output, current)

handleTaskOutput(s, e, data) ==
  LET definition == s.execs[e].request
      key == getKey(definition.module, definition.target)
      existing == IF Has(s.taskOutput, key) THEN s.taskOutput[key] ELSE <<>>
  IN  [s EXCEPT !.taskOutput = Put(@, key, Slice(existing \o data)),
                !.execs[e].chunks = @ + 1]

\* An executeSilently that reports what the silent run classified as,
\* whatever it is, and starts no terminal run.
executeSilentlyResume_reports(s, e, result, current) ==
  LET request == s.execs[e].request
      key == KeyOf(request)
      output == result.stdout \o result.stderr
      status == resolveOutputStatus(IF result.exitCode = Undefined THEN 1 ELSE result.exitCode, output)
      s0 == [s EXCEPT !.ended = [kind |-> "silent", exec |-> e, exitCode |-> result.exitCode,
                                 output |-> output, errors |-> current.errors,
                                 warnings |-> current.warnings, closed |-> FALSE]]
      s1 == Fire([s0 EXCEPT !.running = Del(@, key)],
                 [moduleId |-> request.module, target |-> request.target,
                  status |-> status,
                  exitCode |-> IF result.exitCode = Undefined THEN 0 ELSE result.exitCode])
  IN  kick([s1 EXCEPT !.modulePaths = Del(@, key),
                      !.runStartedAt = Del(@, key),
                      !.autoCloseOnSuccess = Del(@, key),
                      !.execs[e].phase = "done"])

\* executeSilently from the return of runCommandWithExitCode with `result`.
\* `current` is what getDiagnosticsCounts would return at this moment.
executeSilentlyResume(s, e, result, current) ==
  LET request == s.execs[e].request
      key == KeyOf(request)
      output == result.stdout \o result.stderr
      status == resolveOutputStatus(IF result.exitCode = Undefined THEN 1 ELSE result.exitCode, output)
      s0 == [s EXCEPT !.ended = [kind |-> "silent", exec |-> e, exitCode |-> result.exitCode,
                                 output |-> output, errors |-> current.errors,
                                 warnings |-> current.warnings, closed |-> FALSE]]
  IN  IF status = "success"
        THEN LET s1 == Fire([s0 EXCEPT !.running = Del(@, key)],
                            [moduleId |-> request.module, target |-> request.target,
                             status |-> status,
                             exitCode |-> IF result.exitCode = Undefined THEN 0 ELSE result.exitCode])
             IN  kick([s1 EXCEPT !.modulePaths = Del(@, key),
                                 !.runStartedAt = Del(@, key),
                                 !.autoCloseOnSuccess = Del(@, key),
                                 !.execs[e].phase = "done"])
        ELSE LET s1 == [s0 EXCEPT !.running = Del(@, key),
                                  !.autoCloseOnSuccess = Put(@, key, FALSE),
                                  !.runStartedAt = Put(@, key, e),
                                  !.execs[e].escalated = TRUE]
             IN  executeInTerminal(Fire(s1, RunningUpdate(request)),
                                   [request EXCEPT !.runInTerminal = TRUE], key, e)

(***************************************************************************)
(* The environment: what the processes and the diagnostics may answer.     *)
(***************************************************************************)
DiagnosticsCounts == {[errors |-> x, warnings |-> y] : x \in 0..1, y \in 0..1}
NoDiagnostics == [errors |-> 0, warnings |-> 0]

\* runCommandWithExitCode's results: stdout, stderr and the exit code, which
\* is 0 on a clean exit, the process's code on a failed one, and undefined
\* when the error carries no numeric code.
ExecResult(stdout, stderr, exitCode) ==
  [stdout |-> stdout, stderr |-> stderr, exitCode |-> exitCode]
ExecResults ==
  {ExecResult(o[1], o[2], c) :
     o \in {<<<<>>, <<>>>>, <<<<"text">>, <<>>>>, <<<<"text">>, <<"warning:">>>>,
            <<<<>>, <<"error:">>>>, <<<<"warning:">>, <<"error:">>>>},
     c \in ExitCodes}

\* The outcomes that differ in what the scheduler does next: a task process
\* that exits 0 (handleTaskEnd waits for the diagnostics) or not, a silent
\* run that classifies as success or not.
PlainExitCodes == {0, 1}
PlainResults == {ExecResult(<<>>, <<>>, 0), ExecResult(<<>>, <<>>, 1)}

(***************************************************************************)
(* Actions.                                                                *)
(***************************************************************************)
Init ==
  /\ pending = <<>>
  /\ running = EmptyMap
  /\ maxParallel \in 1..MaxCap
  /\ taskNames = EmptyMap
  /\ modulePaths = EmptyMap
  /\ runStartedAt = EmptyMap
  /\ autoCloseOnSuccess = EmptyMap
  /\ taskOutput = EmptyMap
  /\ execs = <<>>
  /\ fired = <<>>
  /\ ended = NoEnd
  /\ issued = 0
  /\ modules = <<>>
  /\ targets = <<>>
  /\ calls = 0
  /\ called = NoCall
  /\ announced = {}
  /\ runAllQueues = EmptyMap
  /\ runAllActive = EmptyMap
  /\ runModuleQueues = EmptyMap
  /\ runModuleActive = EmptyMap
  /\ refreshes = <<>>
  /\ view = NoView
  /\ cmakeCache = {}
  /\ configures = <<>>
  /\ configureResolvers = EmptyMap
  /\ configureTaskNames = EmptyMap
  /\ generatorCall = NoGeneratorCall
  /\ discoverCall = NoDiscoverCall
  /\ settleWait = NoSettleWait

Accepted(s, id) ==
  \/ \E i \in 1..Len(s.pending) : s.pending[i].id = id
  \/ \E e \in 1..Len(s.execs) : s.execs[e].request.id = id

\* A command of the controller reaches TargetRunner.enqueue.
Enqueue(m, t, o) ==
  /\ LET s == enqueue(Runner, enqueueRun(m, t, o, issued + 1))
     IN  Commit([s EXCEPT !.issued = IF Accepted(s, issued + 1) THEN issued + 1 ELSE issued])

StopAll ==
  /\ Commit(stopAll(Runner))

SetMaxParallel(n) ==
  /\ Commit(setMaxParallel(Runner, n))

\* vscode.tasks.executeTask resolves for execution e.
TaskLaunched(e) ==
  /\ execs[e].phase = "launching"
  /\ Commit(executeInTerminalResume(Runner, e))

\* onDidWriteTaskData for the task of execution e.
TaskData(e, block) ==
  /\ execs[e].phase = "task"
  /\ execs[e].chunks < MaxChunks
  /\ Commit(handleTaskOutput(Runner, e, <<block>>))

\* onDidEndTaskProcess for the task of execution e.
TaskProcessEnd(e, exitCode, current) ==
  /\ execs[e].phase = "task"
  /\ Commit(handleTaskEnd(Runner, e, exitCode, current))

\* The diagnostics settle-wait of execution e is over.
DiagnosticsSettled(e, current) ==
  /\ execs[e].phase = "settling"
  /\ Commit(handleTaskEndSettled(Runner, e, current))

\* runCommandWithExitCode returns for execution e.
SilentProcessEnd(e, result, current) ==
  /\ execs[e].phase = "silent"
  /\ Commit(executeSilentlyResume(Runner, e, result, current))

Execs == 1..Len(execs)

(***************************************************************************)
(* DashboardController: what it does with the runner and the store.        *)
(***************************************************************************)
\* The buildSystem setting.
buildSystem == "auto"
\* The options of a run in the background, closed on success.
SilentRun == [autoCloseOnSuccess |-> TRUE, runInTerminal |-> FALSE]
\* The options enqueueRun defaults to.
TerminalRun == [autoCloseOnSuccess |-> FALSE, runInTerminal |-> TRUE]

\* An enqueueRun that does not look at the availability of the target.
enqueueRunIfAvailable_unchecked(s, moduleId, target, options) ==
  LET i == getModuleState(s, moduleId)
  IN  IF i = 0 THEN s
      ELSE LET generator == s.modules[i].generator
               request == [enqueueRun(moduleId, target, options, s.issued + 1)
                             EXCEPT !.useNinja = IF generator # NoGenerator
                                                   THEN generator = "Ninja"
                                                   ELSE buildSystem # "make"]
               s1 == enqueue(s, request)
           IN  [s1 EXCEPT !.issued = IF Accepted(s1, s.issued + 1) THEN @ + 1 ELSE @]

\* DashboardController.enqueueRun, its checks of the store included.
enqueueRunIfAvailable(s, moduleId, target, options) ==
  LET i == getModuleState(s, moduleId)
  IN  IF i = 0 \/ ~Available(s.modules[i], target) THEN s
      ELSE LET generator == s.modules[i].generator
               request == [enqueueRun(moduleId, target, options, s.issued + 1)
                             EXCEPT !.useNinja = IF generator # NoGenerator
                                                   THEN generator = "Ninja"
                                                   ELSE buildSystem # "make"]
               s1 == enqueue(s, request)
           IN  [s1 EXCEPT !.issued = IF Accepted(s1, s.issued + 1) THEN @ + 1 ELSE @]

\* queue.shift() until an available target comes: what is left of the queue
\* from that target on, <<>> if none comes.
RECURSIVE SkipUnavailable(_, _, _)
SkipUnavailable(s, moduleId, queue) ==
  IF queue = <<>> THEN <<>>
  ELSE LET i == getModuleState(s, moduleId)
       IN  IF i # 0 /\ Available(s.modules[i], Head(queue)) THEN queue
           ELSE SkipUnavailable(s, moduleId, Tail(queue))

\* A startNextRunAllTarget that hands the whole queue of the module to the
\* scheduler at once.
RECURSIVE startNextRunAllTarget_atOnce(_, _)
startNextRunAllTarget_atOnce(s, moduleId) ==
  IF ~Has(s.runAllQueues, moduleId) THEN s
  ELSE LET queue == SkipUnavailable(s, moduleId, s.runAllQueues[moduleId])
       IN  IF queue = <<>> THEN [s EXCEPT !.runAllQueues = Del(@, moduleId)]
           ELSE startNextRunAllTarget_atOnce(
                  enqueueRunIfAvailable(
                    [s EXCEPT !.runAllQueues = Put(@, moduleId, Tail(queue))],
                    moduleId, Head(queue), SilentRun),
                  moduleId)

startNextRunAllTarget(s, moduleId) ==
  IF Has(s.runAllActive, moduleId) THEN s
  ELSE IF ~Has(s.runAllQueues, moduleId) THEN s
  ELSE IF getModuleState(s, moduleId) = 0
    THEN [s EXCEPT !.runAllQueues = Del(@, moduleId)]
  ELSE LET queue == SkipUnavailable(s, moduleId, s.runAllQueues[moduleId])
       IN  IF queue = <<>> THEN [s EXCEPT !.runAllQueues = Del(@, moduleId)]
           ELSE enqueueRunIfAvailable(
                  [s EXCEPT !.runAllQueues = Put(@, moduleId, Tail(queue)),
                            !.runAllActive = Put(@, moduleId, Head(queue))],
                  moduleId, Head(queue), SilentRun)

\* A handleRunAllCompletion that ends the module's sequence with the
\* target that completed.
handleRunAllCompletion_halts(s, moduleId, target) ==
  IF ~(Has(s.runAllActive, moduleId) /\ s.runAllActive[moduleId] = target) THEN s
  ELSE [s EXCEPT !.runAllActive = Del(@, moduleId),
                 !.runAllQueues = Del(@, moduleId)]

handleRunAllCompletion(s, moduleId, target) ==
  IF ~(Has(s.runAllActive, moduleId) /\ s.runAllActive[moduleId] = target) THEN s
  ELSE startNextRunAllTarget([s EXCEPT !.runAllActive = Del(@, moduleId)], moduleId)

startNextModuleTarget(s, moduleId) ==
  IF Has(s.runModuleActive, moduleId) THEN s
  ELSE IF ~Has(s.runModuleQueues, moduleId) THEN s
  ELSE LET queue == SkipUnavailable(s, moduleId, s.runModuleQueues[moduleId])
       IN  IF queue = <<>> THEN [s EXCEPT !.runModuleQueues = Del(@, moduleId)]
           ELSE enqueueRunIfAvailable(
                  [s EXCEPT !.runModuleQueues = Put(@, moduleId, Tail(queue)),
                            !.runModuleActive = Put(@, moduleId, Head(queue))],
                  moduleId, Head(queue), SilentRun)

handleRunModuleCompletion(s, moduleId, target) ==
  IF ~(Has(s.runModuleActive, moduleId) /\ s.runModuleActive[moduleId] = target) THEN s
  ELSE LET s1 == [s EXCEPT !.runModuleActive = Del(@, moduleId)]
       IN  IF getModuleState(s1, moduleId) = 0
             THEN [s1 EXCEPT !.runModuleQueues = Del(@, moduleId)]
             ELSE startNextModuleTarget(s1, moduleId)

\* The listener the constructor gives to runner.onDidUpdate.
onDidUpdate(s, update) ==
  pushState(
    IF update.status = "running"
      THEN updateRun(s, update.moduleId, update.target,
                     [status |-> "running", startedAt |-> Now])
      ELSE handleRunModuleCompletion(
             handleRunAllCompletion(
               updateRun(s, update.moduleId, update.target,
                         [status |-> update.status, exitCode |-> update.exitCode,
                          finishedAt |-> Now]),
               update.moduleId, update.target),
             update.moduleId, update.target))

\* runAll's loop over state.modules from the i-th on: the queues it sets and,
\* in `order`, the keys of runAllQueues in the order they were inserted.
RECURSIVE SetRunAllQueues(_, _, _)
SetRunAllQueues(s, i, order) ==
  IF i > Len(s.modules) THEN [s |-> s, order |-> order]
  ELSE LET moduleState == s.modules[i]
           IsAvailable(name) == Available(moduleState, name)
           availableTargets == SelectSeq(s.targets, IsAvailable)
       IN  IF availableTargets = <<>> THEN SetRunAllQueues(s, i + 1, order)
           ELSE SetRunAllQueues(
                  [s EXCEPT !.runAllQueues = Put(@, moduleState.module, availableTargets)],
                  i + 1,
                  IF Has(s.runAllQueues, moduleState.module) THEN order
                  ELSE Append(order, moduleState.module))

\* for (moduleId of keys) startNextRunAllTarget(moduleId)
RECURSIVE StartRunAllTargets(_, _)
StartRunAllTargets(s, keys) ==
  IF keys = <<>> THEN s
  ELSE StartRunAllTargets(startNextRunAllTarget(s, Head(keys)), Tail(keys))

runAll(s) ==
  LET set == SetRunAllQueues([s EXCEPT !.runAllQueues = EmptyMap,
                                       !.runAllActive = EmptyMap], 1, <<>>)
  IN  StartRunAllTargets(set.s, set.order)

\* for (target of names) updateRun(moduleId, target, { status: 'running', startedAt })
RECURSIVE MarkRunning(_, _, _)
MarkRunning(s, moduleId, names) ==
  IF names = <<>> THEN s
  ELSE MarkRunning(updateRun(s, moduleId, Head(names),
                             [status |-> "running", startedAt |-> Now]),
                   moduleId, Tail(names))

\* A runTargetForModule that leaves the store to the scheduler's updates.
runTargetForModule_unmarked(s, moduleId) ==
  LET i == find(s.modules, moduleId)
  IN  IF i = 0 THEN s
      ELSE LET IsAvailable(name) == Available(s.modules[i], name)
               availableTargets == SelectSeq(s.targets, IsAvailable)
           IN  IF availableTargets = <<>> THEN s
               ELSE startNextModuleTarget(
                      [s EXCEPT !.runModuleQueues = Put(@, moduleId, availableTargets),
                                !.runModuleActive = Del(@, moduleId)],
                      moduleId)

runTargetForModule(s, moduleId) ==
  LET i == find(s.modules, moduleId)
  IN  IF i = 0 THEN s
      ELSE LET IsAvailable(name) == Available(s.modules[i], name)
               availableTargets == SelectSeq(s.targets, IsAvailable)
           IN  IF availableTargets = <<>> THEN s
               ELSE startNextModuleTarget(
                      [pushState(MarkRunning(s, moduleId, availableTargets))
                         EXCEPT !.runModuleQueues = Put(@, moduleId, availableTargets),
                                !.runModuleActive = Del(@, moduleId)],
                      moduleId)

\* runTargetForAllModules's loop over the modules from the i-th on.
RECURSIVE runTargetForAllModulesFrom(_, _, _)
runTargetForAllModulesFrom(s, target, i) ==
  IF i > Len(s.modules) THEN s
  ELSE runTargetForAllModulesFrom(
         IF Available(s.modules[i], target)
           THEN enqueueRunIfAvailable(s, s.modules[i].module, target, SilentRun)
           ELSE s,
         target, i + 1)

runTargetForAllModules(s, target) == runTargetForAllModulesFrom(s, target, 1)

\* rerunFailed's loop over what getFailedTargets returned.
RECURSIVE rerunFailedEach(_, _)
rerunFailedEach(s, requests) ==
  IF requests = <<>> THEN s
  ELSE rerunFailedEach(enqueueRunIfAvailable(s, Head(requests).module, Head(requests).target,
                                             TerminalRun),
                       Tail(requests))

rerunFailed(s) == rerunFailedEach(s, getFailedTargets(s))

\* A stopAll that also puts the runs it finds running back to idle.
stopAllDashboard_resets(s) ==
  LET s1 == stopAll(s)
  IN  [s1 EXCEPT !.runAllQueues = EmptyMap,
                 !.runAllActive = EmptyMap,
                 !.runModuleQueues = EmptyMap,
                 !.runModuleActive = EmptyMap,
                 !.modules = [i \in DOMAIN s1.modules |->
                                [s1.modules[i] EXCEPT !.runs =
                                   [k \in DOMAIN s1.modules[i].runs |->
                                      IF s1.modules[i].runs[k].result.status = "running"
                                        THEN [s1.modules[i].runs[k] EXCEPT !.result = Idle]
                                        ELSE s1.modules[i].runs[k]]]],
                 !.execs = [e \in DOMAIN s1.execs |->
                              IF s1.execs[e].phase = "silent"
                                THEN [s1.execs[e] EXCEPT !.stopped = TRUE]
                                ELSE s1.execs[e]]]

\* DashboardController.stopAll.  It also notes, in `stopped`, the silent
\* executions whose process runs at this moment.
stopAllDashboard(s) ==
  LET s1 == stopAll(s)
  IN  [s1 EXCEPT !.runAllQueues = EmptyMap,
                 !.runAllActive = EmptyMap,
                 !.runModuleQueues = EmptyMap,
                 !.runModuleActive = EmptyMap,
                 !.execs = [e \in DOMAIN s1.execs |->
                              IF s1.execs[e].phase = "silent"
                                THEN [s1.execs[e] EXCEPT !.stopped = TRUE]
                                ELSE s1.execs[e]]]

enqueueRunById(s, moduleId, target) ==
  IF find(s.modules, moduleId) = 0 THEN s
  ELSE enqueueRunIfAvailable(s, moduleId, target, TerminalRun)

(***************************************************************************)
(* refresh, from await to await.  A call of refresh is a record of         *)
(* `refreshes`: the modules it discovered, the module it works on and the  *)
(* await it stands at.                                                     *)
(*   phase "discover"  Promise.all of discoverModules is awaited           *)
(*   phase "cache"     hasCMakeCache of the module is awaited              *)
(*   phase "generator" selectGenerator for the module is awaited           *)
(*   phase "detect"    detectTargets for the module is awaited             *)
(*   phase "done"      refresh has returned                                *)
(***************************************************************************)
\* options.targets of the dashboard.
OptionTargets == <<"t1", "t2">>
\* What discovery may find.
DiscoveredLists == {<<"m1">>}
\* The generator selectGenerator finds for a module.
ModuleGenerator(moduleId) == IF ModuleUsesNinja[moduleId] THEN "Ninja" ELSE "Unix Makefiles"
\* What an introspection command run by runCommand may do: exit with zero
\* and list the targets `targets`, or fail (a non-zero exit code, or a
\* command that cannot be started): execFile then rejects.
CommandResults ==
  {[failed |-> FALSE, targets |-> names] : names \in {{}, {"t1"}, {"t1", "t2"}}}
    \cup {[failed |-> TRUE, targets |-> {}]}
\* detectTargets returns a set of names, or throws.
Detected(names) == [error |-> FALSE, targets |-> names]
DetectThrows == [error |-> TRUE, targets |-> {}]

\* detectTargets: `first` is the result of `ninja -t targets` (of `cmake
\* --build out --target help` with Unix Makefiles), `all` of `ninja -t
\* targets all`, `fallback` of the command run when nothing was found.
detectTargets(generator, first, all, fallback) ==
  IF generator = "Ninja"
    THEN IF first.failed \/ all.failed THEN DetectThrows
         ELSE IF first.targets \cup all.targets # {}
                THEN Detected(first.targets \cup all.targets)
                ELSE IF fallback.failed THEN DetectThrows ELSE Detected(fallback.targets)
    ELSE IF first.failed THEN DetectThrows
         ELSE IF first.targets # {} THEN Detected(first.targets)
              ELSE IF fallback.failed THEN DetectThrows ELSE Detected(fallback.targets)

\* What detectTargets may answer.
Detections ==
  {detectTargets(generator, first, all, fallback) :
     generator \in {"Ninja", "Unix Makefiles"}, first \in CommandResults,
     all \in CommandResults, fallback \in CommandResults}

\* for (target of this.stateStore.getState().targets) setAvailability(id, name, ...)
RECURSIVE SetAvailabilities(_, _, _, _)
SetAvailabilities(s, moduleId, names, available) ==
  IF names = <<>> THEN s
  ELSE SetAvailabilities(setAvailability(s, moduleId, Head(names), Head(names) \in available),
                         moduleId, Tail(names), available)

\* refresh up to its first await; with no workspace folder, to its end.
refresh(s, folders) ==
  IF ~folders
    THEN [pushState(setModules(setTargets(s, <<>>), <<>>))
            EXCEPT !.refreshes = Append(@, [phase |-> "done", list |-> <<>>, index |-> 0])]
    ELSE [setTargets(s, OptionTargets)
            EXCEPT !.refreshes = Append(@, [phase |-> "discover", list |-> <<>>, index |-> 0])]

\* refresh goes on to the next module of its list, or returns.
NextModule(s, r) ==
  IF s.refreshes[r].index < Len(s.refreshes[r].list)
    THEN [s EXCEPT !.refreshes[r].index = @ + 1, !.refreshes[r].phase = "cache"]
    ELSE [s EXCEPT !.refreshes[r] = [phase |-> "done", list |-> <<>>, index |-> 0]]

\* refresh after setModules and after each refreshModule: it pushes the
\* state and goes on to the next module, or returns.
AfterModule(s, r) == NextModule(pushState(s), r)

\* refresh from the return of discovery to the await of hasCMakeCache.
refreshDiscovered(s, r, list) ==
  AfterModule([setModules(s, list) EXCEPT !.refreshes[r].list = list], r)

\* A refreshModule that detects the targets whether there is a cache or not.
refreshModuleCache_detects(s, r, cache) == [s EXCEPT !.refreshes[r].phase = "generator"]

\* refreshModule from the return of hasCMakeCache.
refreshModuleCache(s, r, cache) ==
  LET moduleId == s.refreshes[r].list[s.refreshes[r].index]
  IN  IF cache THEN [s EXCEPT !.refreshes[r].phase = "generator"]
      ELSE AfterModule(
             SetAvailabilities(
               updateConfigure(setNeedsConfigure(s, moduleId, TRUE), moduleId,
                               [status |-> "idle",
                                output |-> "Configure required (missing CMake cache).",
                                updatedAt |-> Now]),
               moduleId, s.targets, {}),
             r)

\* configureAndDetect(moduleInfo, settings, true, false) from the return of
\* selectGenerator to the await of detectTargets.
refreshModuleGenerator(s, r, generator) ==
  LET moduleId == s.refreshes[r].list[s.refreshes[r].index]
  IN  [setNeedsConfigure(setModuleGenerator(s, moduleId, generator), moduleId, FALSE)
         EXCEPT !.refreshes[r].phase = "detect"]

\* configureAndDetect from the return of detectTargets, and refreshModule's
\* catch when it threw.
refreshModuleDetected(s, r, detection) ==
  LET moduleId == s.refreshes[r].list[s.refreshes[r].index]
  IN  IF ~detection.error
        THEN AfterModule(SetAvailabilities(s, moduleId, s.targets, detection.targets), r)
        ELSE LET s1 == SetAvailabilities(setNeedsConfigure(s, moduleId, TRUE),
                                         moduleId, s.targets, {})
                 s2 == updateConfigure(setNeedsConfigure(s1, moduleId, TRUE), moduleId,
                                       [status |-> "failed", output |-> "Configure failed.",
                                        updatedAt |-> Now])
             IN  AfterModule(SetAvailabilities(s2, moduleId, s2.targets, {}), r)

\* applySettings: the max-parallel setting changed.
applySettings(s, n, folders) == refresh(setMaxParallel(s, n), folders)

(***************************************************************************)
(* Spec: the scheduler under every order of commands, task launches and    *)
(* process ends.  The processes' answers are the plain ones: what a        *)
(* process wrote and what the diagnostics hold decide the status that is   *)
(* reported, not what is dispatched.                                       *)
(***************************************************************************)
EnqueueStep ==
  /\ issued < MaxRequests
  /\ \E m \in Modules, t \in Targets, o \in RunOptions : Enqueue(m, t, o)
SetMaxParallelStep == \E n \in 0..MaxCap : SetMaxParallel(n)
TaskLaunchedStep == \E e \in Execs : TaskLaunched(e)
TaskProcessEndStep == \E e \in Execs, c \in PlainExitCodes : TaskProcessEnd(e, c, NoDiagnostics)
DiagnosticsSettledStep == \E e \in Execs : DiagnosticsSettled(e, NoDiagnostics)
SilentProcessEndStep == \E e \in Execs, r \in PlainResults : SilentProcessEnd(e, r, NoDiagnostics)

Next ==
  \/ EnqueueStep
  \/ StopAll
  \/ SetMaxParallelStep
  \/ TaskLaunchedStep
  \/ TaskProcessEndStep
  \/ DiagnosticsSettledStep
  \/ SilentProcessEndStep

Spec == Init /\ [][Next]_vars

(***************************************************************************)
(* What the claims speak of.                                               *)
(***************************************************************************)
Size(map) == Cardinality(DOMAIN map)
ExecKey(e) == KeyOf(execs[e].request)
\* Executions the dispatch loop started whose completion update is not fired.
Started == {e \in Execs : execs[e].phase # "done"}
\* Executions whose process runs or is being launched.
Executing == {e \in Execs : execs[e].phase \in {"silent", "launching", "task"}}
Queued(key) == {i \in 1..Len(pending) : KeyOf(pending[i]) = key}
Completed(key) == {e \in Execs : ExecKey(e) = key /\ execs[e].phase = "done"}
IsCompletion(update) == update.status \in {"success", "warning", "failed"}

(***************************************************************************)
(* FixedCapSpec: the scheduler with the max-parallel value it was built    *)
(* with, never changed.                                                    *)
(***************************************************************************)
NextFixedCap ==
  \/ EnqueueStep
  \/ StopAll
  \/ TaskLaunchedStep
  \/ TaskProcessEndStep
  \/ DiagnosticsSettledStep
  \/ SilentProcessEndStep

FixedCapSpec == Init /\ [][NextFixedCap]_vars

\* C1: with a fixed max-parallel value N >= 1, the executions that the
\* dispatch loop has started and whose completion update has not yet been
\* fired are at most N, for terminal-attached and for silent requests.
C1_StartedWithinCap == Cardinality(Started) <= maxParallel

\* C2: a (module,target) key has at most one instance that is queued or
\* executing, so an enqueue for such a key changes nothing.
C2_OneInstancePerKey ==
  \A key \in Keys :
    Cardinality(Queued(key)) + Cardinality({e \in Executing : ExecKey(e) = key}) <= 1

\* C10: when stopAll returns the pending queue is empty, terminate has been
\* requested for every terminal-attached execution that was dispatched and
\* whose process has not ended (registered in `running` or not), silent
\* executions are untouched, nothing was dispatched or fired, and a request
\* that left the queue without being dispatched never comes back.
C10_StopAllTerminatesAll ==
  [][/\ StopAll =>
          /\ pending' = <<>>
          /\ \A e \in Execs :
               execs[e].phase \in {"launching", "task"} => execs'[e].terminated
          /\ \A e \in Execs :
               execs[e].phase = "silent" => execs'[e] = execs[e]
          /\ Len(execs') = Len(execs)
          /\ fired' = <<>>
     /\ \A id \in 1..issued : ~Accepted(Runner, id) => ~Accepted(Runner', id)]_vars

\* The key of an update.
UpdateKey(update) == getKey(update.moduleId, update.target)

\* C12: every request the scheduler dispatches gets a 'running' update for
\* its key at dispatch time, before the completion update of its execution;
\* and every completion update comes after a 'running' update for the same
\* key that was fired since that key's previous completion update.
C12_RunningBeforeCompletion ==
  [][/\ \A e \in (Len(execs) + 1)..Len(execs') :
          /\ execs'[e].phase # "done"
          /\ \E i \in 1..Len(fired') : fired'[i] = RunningUpdate(execs'[e].request)
     /\ \A i \in 1..Len(fired') :
          IsCompletion(fired'[i]) =>
            \/ /\ UpdateKey(fired'[i]) \in announced
               /\ \A j \in 1..(i - 1) :
                    IsCompletion(fired'[j]) => UpdateKey(fired'[j]) # UpdateKey(fired'[i])
            \/ \E j \in 1..(i - 1) :
                 /\ fired'[j].status = "running"
                 /\ UpdateKey(fired'[j]) = UpdateKey(fired'[i])
                 /\ \A k \in (j + 1)..(i - 1) :
                      IsCompletion(fired'[k]) => UpdateKey(fired'[k]) # UpdateKey(fired'[i])]_vars

(***************************************************************************)
(* OnceSpec: stopAll is not called, and a key is enqueued again only while *)
(* no completion update has been fired for it; every launch and every      *)
(* process comes to its end.                                               *)
(***************************************************************************)
EnqueueLiveStep ==
  /\ issued < MaxLiveRequests
  /\ \E m \in Modules, t \in Targets, o \in RunOptions :
       /\ Completed(getKey(m, t)) = {}
       /\ Enqueue(m, t, o)
SetPositiveMaxParallelStep == \E n \in 1..MaxCap : SetMaxParallel(n)

NextOnce ==
  \/ EnqueueLiveStep
  \/ SetPositiveMaxParallelStep
  \/ TaskLaunchedStep
  \/ TaskProcessEndStep
  \/ DiagnosticsSettledStep
  \/ SilentProcessEndStep

ProcessFairness ==
  /\ WF_vars(TaskLaunchedStep)
  /\ WF_vars(TaskProcessEndStep)
  /\ WF_vars(DiagnosticsSettledStep)
  /\ WF_vars(SilentProcessEndStep)

OnceSpec == Init /\ [][NextOnce]_vars /\ ProcessFairness

\* C3: when a (module,target) is enqueued again only while its first request
\* is queued or running, no more than one completion update is fired for it
\* (and, the processes ending, one is).
C3_OneCompletionPerKey ==
  \A key \in Keys : Cardinality(Completed(key)) <= 1

(***************************************************************************)
(* Claims on Spec.                                                         *)
(***************************************************************************)
IsRunningUpdate(update) == update.status = "running"
\* Request ids grow along the executions, in dispatch order, and on along
\* the pending queue: what was accepted earlier is dispatched earlier.
DispatchOrder ==
  LET ids == [e \in Execs |-> execs[e].request.id] \o [i \in 1..Len(pending) |-> pending[i].id]
  IN  \A i, j \in 1..Len(ids) : i < j => ids[i] < ids[j]

EnqueueFairStep ==
  /\ issued < MaxLiveRequests
  /\ \E m \in Modules, t \in Targets, o \in RunOptions : Enqueue(m, t, o)

NextLive ==
  \/ EnqueueFairStep
  \/ SetPositiveMaxParallelStep
  \/ TaskLaunchedStep
  \/ TaskProcessEndStep
  \/ DiagnosticsSettledStep
  \/ SilentProcessEndStep

LiveSpec == Init /\ [][NextLive]_vars /\ ProcessFairness

InPending(id) == \E i \in 1..Len(pending) : pending[i].id = id
Dispatched(id) == \E e \in Execs : execs[e].request.id = id
Starved == pending # <<>> /\ Size(running) < maxParallel

\* C6: every request accepted into the pending queue is eventually
\* dispatched, and the scheduler does not stay with a non-empty pending
\* queue while `running` holds fewer than max-parallel entries.
C6_PendingIsDispatched ==
  /\ \A id \in 1..MaxLiveRequests : InPending(id) ~> Dispatched(id)
  /\ Starved ~> ~Starved

\* A request that had to wait in the queue has been dispatched.
C6_Witness ==
  \E e \in Execs :
    /\ execs[e].request.id = 2
    /\ \E d \in Execs : d < e /\ execs[d].phase = "done"
    /\ fired # <<>> /\ IsCompletion(fired[1])
    /\ fired[Len(fired)] = RunningUpdate(execs[e].request)

(***************************************************************************)
(* ClassifySpec: the runs of a few requests with everything a process may  *)
(* answer: every exit code, output written to the terminal, the output of  *)
(* a silent run, and the diagnostics counts of the module path.            *)
(***************************************************************************)
EnqueueFewStep ==
  /\ issued < MaxClassifiedRequests
  /\ \E m \in Modules, t \in Targets, o \in RunOptions : Enqueue(m, t, o)
TaskDataStep == \E e \in Execs, b \in Blocks : TaskData(e, b)
TaskProcessEndAnyStep ==
  \E e \in Execs, c \in ExitCodes, d \in DiagnosticsCounts : TaskProcessEnd(e, c, d)
DiagnosticsSettledAnyStep == \E e \in Execs, d \in DiagnosticsCounts : DiagnosticsSettled(e, d)
SilentProcessEndAnyStep ==
  \E e \in Execs, r \in ExecResults, d \in DiagnosticsCounts : SilentProcessEnd(e, r, d)

NextClassify ==
  \/ EnqueueFewStep
  \/ StopAll
  \/ TaskLaunchedStep
  \/ TaskDataStep
  \/ TaskProcessEndAnyStep
  \/ DiagnosticsSettledAnyStep
  \/ SilentProcessEndAnyStep

ClassifySpec == Init /\ [][NextClassify]_vars

\* The status the classification rules give: exit code non-zero or unknown
\* is failed; then the diagnostics (an error is failed, else a warning is
\* warning); then the output (the error pattern is failed, else the warning
\* pattern is warning); otherwise success.
RuleStatus(exitCode, errors, warnings, output) ==
  IF exitCode # 0 THEN "failed"
  ELSE IF errors >= 1 THEN "failed"
  ELSE IF warnings >= 1 THEN "warning"
  ELSE IF \E i \in 1..Len(output) : output[i] = "error:" THEN "failed"
  ELSE IF \E i \in 1..Len(output) : output[i] = "warning:" THEN "warning"
  ELSE "success"

\* C7: the completion update of a terminal-attached execution carries the
\* status the rules give for its exit code, the diagnostics counts of the
\* module path and its captured output, and thus exit code 0 when the
\* status is success or warning.
C7_TerminalStatusByRules ==
  ended.kind = "task" =>
    /\ fired # <<>>
    /\ fired[1].status = RuleStatus(ended.exitCode, ended.errors, ended.warnings, ended.output)
    /\ fired[1].exitCode = ended.exitCode
    /\ fired[1].status \in {"success", "warning"} => fired[1].exitCode = 0

\* C8: a silent run that ends with a completion update ends with the status
\* a terminal-attached run gets for the same exit code, diagnostics counts
\* and output.
C8_SilentStatusAsTerminal ==
  (ended.kind = "silent" /\ fired # <<>> /\ IsCompletion(fired[1])) =>
    fired[1].status = RuleStatus(ended.exitCode, ended.errors, ended.warnings, ended.output)

\* C9: a silent execution fires no completion update but success; a silent
\* run with a non-zero or unknown exit code, or with output matching the
\* error or the warning pattern, fires only a 'running' update and launches
\* the terminal task of the same module, target, generator choice and job
\* count; every other completion update comes from a task's process end.
C9_SilentEscalates ==
  /\ \A i \in 1..Len(fired) :
       fired[i].status \in {"warning", "failed"} => (i = 1 /\ ended.kind = "task")
  /\ ended.kind = "silent" =>
       LET e == ended.exec
           request == execs[e].request
           clean == /\ ended.exitCode = 0
                    /\ \A i \in 1..Len(ended.output) : ended.output[i] \notin {"error:", "warning:"}
       IN  IF clean
             THEN /\ execs[e].phase = "done"
                  /\ ~execs[e].escalated
                  /\ fired[1].status = "success"
                  /\ fired[1].moduleId = request.module /\ fired[1].target = request.target
             ELSE /\ fired = <<RunningUpdate(request)>>
                  /\ execs[e].phase = "launching"
                  /\ execs[e].escalated
                  /\ execs[e].task = getTargetCommand(request.module, request.target,
                                                      request.useNinja, request.makeJobs)
                  /\ execs[e].task = execs[e].command

\* The terminal-attached execution of an escalated silent request has fired
\* its completion update.
C9_Witness ==
  /\ ended.kind = "task"
  /\ execs[ended.exec].escalated
  /\ execs[ended.exec].phase = "done"
  /\ fired[1].status \in {"warning", "failed"}

(***************************************************************************)
(* StoreSpec: the StateStore alone, its operations called in any order     *)
(* with any module id, target name and list, known to the store or not.    *)
(***************************************************************************)
\* The lists of at most MaxListLen elements of a set, repeats included.
Lists(S) == UNION {[1..n -> S] : n \in 0..MaxListLen}

Generators == {"Ninja", "Unix Makefiles"}

\* The updates the controller passes to updateRun and to updateConfigure.
RunUpdates ==
  {[status |-> "running", startedAt |-> Now],
   [status |-> "success", exitCode |-> 0, finishedAt |-> Now],
   [status |-> "failed", exitCode |-> 1, finishedAt |-> Now]}
ConfigureUpdates ==
  {[status |-> "running", updatedAt |-> Now],
   [status |-> "failed", output |-> "Configure failed.", updatedAt |-> Now]}

\* A call of the StateStore from outside that leaves the store as s.
StoreCall(s, op, moduleId, targetName, list) ==
  [s EXCEPT !.calls = @ + 1,
            !.called = [op |-> op, moduleId |-> moduleId,
                        targetName |-> targetName, list |-> list]]

SetTargets(list) ==
  /\ calls < MaxCalls
  /\ Commit(StoreCall(setTargets(Runner, list), "setTargets", "", "", list))
SetModules(list) ==
  /\ calls < MaxCalls
  /\ Commit(StoreCall(setModules(Runner, list), "setModules", "", "", list))
SetModuleGenerator(m, g) ==
  /\ calls < MaxCalls
  /\ Commit(StoreCall(setModuleGenerator(Runner, m, g), "setModuleGenerator", m, "", <<>>))
SetNeedsConfigure(m, b) ==
  /\ calls < MaxCalls
  /\ Commit(StoreCall(setNeedsConfigure(Runner, m, b), "setNeedsConfigure", m, "", <<>>))
SetAvailability(m, t, b) ==
  /\ calls < MaxCalls
  /\ Commit(StoreCall(setAvailability(Runner, m, t, b), "setAvailability", m, t, <<>>))
UpdateRun(m, t, u) ==
  /\ calls < MaxCalls
  /\ Commit(StoreCall(updateRun(Runner, m, t, u), "updateRun", m, t, <<>>))
UpdateConfigure(m, u) ==
  /\ calls < MaxCalls
  /\ Commit(StoreCall(updateConfigure(Runner, m, u), "updateConfigure", m, "", <<>>))

SetTargetsStep == \E list \in Lists(TargetNames) : SetTargets(list)
SetModulesStep == \E list \in Lists(Modules) : SetModules(list)
SetModuleGeneratorStep == \E m \in Modules, g \in Generators : SetModuleGenerator(m, g)
SetNeedsConfigureStep == \E m \in Modules, b \in BOOLEAN : SetNeedsConfigure(m, b)
SetAvailabilityStep ==
  \E m \in Modules, t \in TargetNames, b \in BOOLEAN : SetAvailability(m, t, b)
UpdateRunStep == \E m \in Modules, t \in TargetNames, u \in RunUpdates : UpdateRun(m, t, u)
UpdateConfigureStep == \E m \in Modules, u \in ConfigureUpdates : UpdateConfigure(m, u)

NextStore ==
  \/ SetTargetsStep
  \/ SetModulesStep
  \/ SetModuleGeneratorStep
  \/ SetNeedsConfigureStep
  \/ SetAvailabilityStep
  \/ UpdateRunStep
  \/ UpdateConfigureStep

StoreSpec == Init /\ [][NextStore]_vars

\* What the store claims speak of.
RunNames(runs) == {runs[i].name : i \in 1..Len(runs)}
ListNames(list) == {list[i] : i \in 1..Len(list)}
InStore(moduleId) == \E i \in 1..Len(modules) : modules[i].module = moduleId
\* A ModuleState but for its runs.
Rest(moduleState) == [moduleState EXCEPT !.runs = <<>>]

\* C13: after any sequence of StateStore operations every module of the
\* store has a runs entry for every target of the current target list, and
\* an entry is other than idle only through an updateRun for it.
C13_RunsForEveryTarget ==
  /\ [](\A i \in 1..Len(modules) : \A k \in 1..Len(targets) :
          RunsHas(modules[i].runs, targets[k]))
  /\ [][\A i \in 1..Len(modules') : \A name \in RunNames(modules'[i].runs) :
          RunsGet(modules'[i].runs, name) # Idle =>
            \/ /\ called'.op = "updateRun"
               /\ called'.moduleId = modules'[i].module
               /\ called'.targetName = name
            \/ /\ called'.op # "setModules"
               /\ i <= Len(modules)
               /\ modules[i].module = modules'[i].module
               /\ RunsHas(modules[i].runs, name)
               /\ RunsGet(modules[i].runs, name) = RunsGet(modules'[i].runs, name)]_vars

\* A module that ran one target has an idle entry for another target, which
\* setTargets added to it.
C13_Witness ==
  /\ called.op = "setTargets"
  /\ Len(targets) = 2 /\ targets[1] # targets[2]
  /\ \E i \in 1..Len(modules) :
       /\ RunsGet(modules[i].runs, targets[1]).status = "failed"
       /\ RunsGet(modules[i].runs, targets[2]) = Idle

\* C14: setTargets(list) makes list the target list and changes no run
\* result: every runs entry a module had is the same after the call, in the
\* new list or not; the entries added are idle ones for the names of the
\* list that had none; availability, configure, needsConfigure and the
\* generator of every module are unchanged.
C14_SetTargetsKeepsRuns ==
  [][called'.op = "setTargets" =>
       /\ targets' = called'.list
       /\ Len(modules') = Len(modules)
       /\ \A i \in 1..Len(modules) :
            /\ Rest(modules'[i]) = Rest(modules[i])
            /\ \A name \in RunNames(modules[i].runs) :
                 /\ RunsHas(modules'[i].runs, name)
                 /\ RunsGet(modules'[i].runs, name) = RunsGet(modules[i].runs, name)
            /\ \A name \in RunNames(modules'[i].runs) \ RunNames(modules[i].runs) :
                 /\ name \in ListNames(called'.list)
                 /\ RunsGet(modules'[i].runs, name) = Idle
            /\ ListNames(called'.list) \subseteq RunNames(modules'[i].runs)
            /\ Len(modules'[i].runs) = Cardinality(RunNames(modules'[i].runs))]_vars

\* setTargets has dropped a target from the list whose run had failed, and
\* the result is still in the store.
C14_Witness ==
  /\ called.op = "setTargets"
  /\ targets # <<>>
  /\ \E i \in 1..Len(modules) : \E name \in RunNames(modules[i].runs) \ ListNames(targets) :
       /\ RunsGet(modules[i].runs, name).status = "failed"
       /\ RunsGet(modules[i].runs, targets[1]) = Idle

\* C15: after setModules(list) the store holds one ModuleState per element
\* of list, in list order, each with empty availability, configure status
\* idle, no generator, and runs entries for exactly the current target
\* names, all idle; nothing of the earlier modules' state is left and the
\* target list is unchanged.
C15_SetModulesResets ==
  [][called'.op = "setModules" =>
       /\ targets' = targets
       /\ Len(modules') = Len(called'.list)
       /\ \A i \in 1..Len(modules') :
            /\ modules'[i].module = called'.list[i]
            /\ DOMAIN modules'[i].availability = {}
            /\ modules'[i].configure = [status |-> "idle"]
            /\ modules'[i].generator = NoGenerator
            /\ modules'[i].needsConfigure = FALSE
            /\ RunNames(modules'[i].runs) = ListNames(targets)
            /\ Len(modules'[i].runs) = Cardinality(ListNames(targets))
            /\ \A k \in 1..Len(modules'[i].runs) :
                 modules'[i].runs[k].result = [status |-> "idle"]]_vars

\* setModules has been called on a store that had seen other calls.
C15_Witness ==
  /\ called.op = "setModules"
  /\ calls >= 3
  /\ Len(modules) = 2
  /\ targets # <<>>

PerModuleOps ==
  {"updateRun", "updateConfigure", "setAvailability", "setNeedsConfigure",
   "setModuleGenerator"}

\* C16: updateRun, updateConfigure, setAvailability, setNeedsConfigure and
\* setModuleGenerator with a module id that is not in the store leave the
\* modules and the target list as they were.
C16_UnknownModuleIsNoOp ==
  [][(called'.op \in PerModuleOps /\ ~InStore(called'.moduleId)) =>
       (modules' = modules /\ targets' = targets)]_vars

\* updateRun was called for a module that a store with modules does not hold.
C16_Witness ==
  /\ called.op = "updateRun"
  /\ ~InStore(called.moduleId)
  /\ modules # <<>>
  /\ targets # <<>>

\* The first place of x in list.
Place(list, x) == CHOOSE k \in 1..Len(list) : list[k] = x /\ \A j \in 1..(k - 1) : list[j] # x
ModuleList == [i \in 1..Len(modules) |-> modules[i].module]
\* The run status and the availability the store answers for a module id.
FailedInStore(moduleId, name) ==
  /\ InStore(moduleId)
  /\ LET runs == modules[Place(ModuleList, moduleId)].runs
     IN  RunsHas(runs, name) /\ RunsGet(runs, name).status = "failed"
AvailableInStore(moduleId, name) ==
  \E i \in 1..Len(modules) : modules[i].module = moduleId /\ Available(modules[i], name)
\* list holds its pairs by module in module-list order and, within a
\* module, by target in target-list order; strictly, when strict.
InListOrder(list, strict) ==
  \A k, l \in 1..Len(list) :
    (k < l /\ list[k].target \in ListNames(targets) /\ list[l].target \in ListNames(targets)) =>
      LET mk == Place(ModuleList, list[k].module)
          ml == Place(ModuleList, list[l].module)
          tk == Place(targets, list[k].target)
          tl == Place(targets, list[l].target)
      IN  mk < ml \/ (mk = ml /\ IF strict THEN tk < tl ELSE tk <= tl)

\* C17: getFailedTargets() returns exactly the (module,target) pairs whose
\* run status in the store is failed, each once, by module in module-list
\* order and, within a module, by target in target-list order.
C17_FailedTargetsInListOrder ==
  LET failed == getFailedTargets(Runner)
  IN  /\ \A k \in 1..Len(failed) : FailedInStore(failed[k].module, failed[k].target)
      /\ \A m \in Modules, name \in TargetNames :
           FailedInStore(m, name) =>
             \E k \in 1..Len(failed) : failed[k] = [module |-> m, target |-> name]
      /\ \A k, l \in 1..Len(failed) : k # l => failed[k] # failed[l]
      /\ InListOrder(failed, TRUE)

\* C18: getAllTargets() returns exactly the (module,target) pairs whose
\* target is in the current target list and available for the module, each
\* once, by module-list order and then target-list order.
C18_AllTargetsOnce ==
  LET all == getAllTargets(Runner)
  IN  /\ \A k \in 1..Len(all) :
           all[k].target \in ListNames(targets) /\ AvailableInStore(all[k].module, all[k].target)
      /\ \A m \in Modules, name \in ListNames(targets) :
           AvailableInStore(m, name) =>
             \E k \in 1..Len(all) : all[k] = [module |-> m, target |-> name]
      /\ \A k, l \in 1..Len(all) : k # l => all[k] # all[l]
      /\ InListOrder(all, TRUE)

\* The places of the module list and of the target list that getAllTargets
\* has a pair for, and their order.
Slots ==
  {slot \in (1..Len(modules)) \X (1..Len(targets)) :
     Available(modules[slot[1]], targets[slot[2]])}
Before(a, b) == a[1] < b[1] \/ (a[1] = b[1] /\ a[2] < b[2])

\* C18, amended: getAllTargets() returns, in the order of the entries of the
\* module list and, within one, of the entries of the target list, one pair
\* for every entry of the target list whose name is available for the
\* module: each pair once when the target list names no target twice, and as
\* often as the list names its target otherwise.
C18_AllTargetsPerEntry ==
  LET all == getAllTargets(Runner)
  IN  /\ Len(all) = Cardinality(Slots)
      /\ \A slot \in Slots :
           LET n == Cardinality({other \in Slots : Before(other, slot)}) + 1
           IN  all[n] = [module |-> modules[slot[1]].module, target |-> targets[slot[2]]]

\* Two modules have one available target each, of a list of two.
C18_Witness ==
  /\ Len(modules) = 2 /\ Len(targets) = 2 /\ targets[1] # targets[2]
  /\ Len(getAllTargets(Runner)) = 2
  /\ getAllTargets(Runner)[1].module # getAllTargets(Runner)[2].module
  /\ getAllTargets(Runner)[1].target # getAllTargets(Runner)[2].target

(***************************************************************************)
(* ControllerSpec: a dashboard controller from its construction on, under  *)
(* every order of commands, refresh continuations, task launches and       *)
(* process ends.                                                           *)
(***************************************************************************)
\* The variables hold the fields of s.
Constructed(s) ==
  /\ pending = s.pending
  /\ running = s.running
  /\ maxParallel = s.maxParallel
  /\ taskNames = s.taskNames
  /\ modulePaths = s.modulePaths
  /\ runStartedAt = s.runStartedAt
  /\ autoCloseOnSuccess = s.autoCloseOnSuccess
  /\ taskOutput = s.taskOutput
  /\ execs = s.execs
  /\ fired = s.fired
  /\ ended = s.ended
  /\ issued = s.issued
  /\ modules = s.modules
  /\ targets = s.targets
  /\ calls = s.calls
  /\ called = s.called
  /\ announced = s.announced
  /\ runAllQueues = s.runAllQueues
  /\ runAllActive = s.runAllActive
  /\ runModuleQueues = s.runModuleQueues
  /\ runModuleActive = s.runModuleActive
  /\ refreshes = s.refreshes
  /\ view = s.view
  /\ cmakeCache = s.cmakeCache
  /\ configures = s.configures
  /\ configureResolvers = s.configureResolvers
  /\ configureTaskNames = s.configureTaskNames
  /\ generatorCall = s.generatorCall
  /\ discoverCall = s.discoverCall
  /\ settleWait = s.settleWait

\* The fields as the field initialisers and new TargetRunner(n) leave them.
NewController(n) ==
  [pending |-> <<>>, running |-> EmptyMap, maxParallel |-> n,
   taskNames |-> EmptyMap, modulePaths |-> EmptyMap, runStartedAt |-> EmptyMap,
   autoCloseOnSuccess |-> EmptyMap, taskOutput |-> EmptyMap,
   execs |-> <<>>, fired |-> <<>>, ended |-> NoEnd, issued |-> 0,
   modules |-> <<>>, targets |-> <<>>, calls |-> 0, called |-> NoCall,
   announced |-> {},
   runAllQueues |-> EmptyMap, runAllActive |-> EmptyMap,
   runModuleQueues |-> EmptyMap, runModuleActive |-> EmptyMap,
   refreshes |-> <<>>, view |-> NoView, cmakeCache |-> {},
   configures |-> <<>>, configureResolvers |-> EmptyMap,
   configureTaskNames |-> EmptyMap,
   generatorCall |-> NoGeneratorCall, discoverCall |-> NoDiscoverCall,
   settleWait |-> NoSettleWait]

\* The constructor, which ends with refresh() run to its first await.
\* The constructor has run in a workspace where the modules of `cached`
\* have a CMake cache.
NewControllerOn(n, cached) == [NewController(n) EXCEPT !.cmakeCache = cached]
\* The modules discovery may find in ControllerSpec.
Discoverable == UNION {ListNames(list) : list \in DiscoveredLists}

ControllerInit ==
  \E n \in 1..MaxCap, folders \in BOOLEAN, cached \in SUBSET Discoverable :
    Constructed(refresh(NewControllerOn(n, cached), folders))

CmdRefresh(folders) ==
  /\ issued + Len(refreshes) < MaxCommands
  /\ Commit(refresh(Runner, folders))
CmdApplySettings(n, folders) ==
  /\ issued + Len(refreshes) < MaxCommands
  /\ Commit(applySettings(Runner, n, folders))
RefreshDiscovered(r, list) ==
  /\ refreshes[r].phase = "discover"
  /\ Commit(refreshDiscovered(Runner, r, list))
RefreshModuleCache(r) ==
  /\ refreshes[r].phase = "cache"
  /\ Commit(refreshModuleCache(Runner, r,
                                hasCMakeCache(Runner, refreshes[r].list[refreshes[r].index])))
RefreshModuleGenerator(r) ==
  /\ refreshes[r].phase = "generator"
  /\ Commit(refreshModuleGenerator(Runner, r,
                                   ModuleGenerator(refreshes[r].list[refreshes[r].index])))
RefreshModuleDetected(r, detection) ==
  /\ refreshes[r].phase = "detect"
  /\ Commit(refreshModuleDetected(Runner, r, detection))

CmdRunAll ==
  /\ issued + Len(refreshes) < MaxCommands
  /\ Commit(runAll(Runner))
CmdRunTargetForModule(m) ==
  /\ issued + Len(refreshes) < MaxCommands
  /\ Commit(runTargetForModule(Runner, m))
CmdRunTargetForAllModules(t) ==
  /\ issued + Len(refreshes) < MaxCommands
  /\ Commit(runTargetForAllModules(Runner, t))
CmdRerunFailed ==
  /\ issued + Len(refreshes) < MaxCommands
  /\ Commit(rerunFailed(Runner))
CmdRunTarget(m, t) ==
  /\ issued + Len(refreshes) < MaxCommands
  /\ Commit(enqueueRunById(Runner, m, t))
CmdStopAll ==
  /\ Commit(stopAllDashboard(Runner))

Refreshes == 1..Len(refreshes)
CmdRefreshStep == \E folders \in BOOLEAN : CmdRefresh(folders)
CmdApplySettingsStep == \E n \in 1..MaxCap, folders \in BOOLEAN : CmdApplySettings(n, folders)
RefreshDiscoveredStep == \E r \in Refreshes, list \in DiscoveredLists : RefreshDiscovered(r, list)
RefreshModuleCacheStep == \E r \in Refreshes : RefreshModuleCache(r)
RefreshModuleGeneratorStep == \E r \in Refreshes : RefreshModuleGenerator(r)
RefreshModuleDetectedStep ==
  \E r \in Refreshes, detection \in Detections : RefreshModuleDetected(r, detection)
CmdRunTargetForModuleStep == \E m \in Modules : CmdRunTargetForModule(m)
CmdRunTargetForAllModulesStep == \E t \in TargetNames : CmdRunTargetForAllModules(t)
CmdRunTargetStep == \E m \in Modules, t \in TargetNames : CmdRunTarget(m, t)

NextController ==
  \/ CmdRefreshStep
  \/ CmdApplySettingsStep
  \/ RefreshDiscoveredStep
  \/ RefreshModuleCacheStep
  \/ RefreshModuleGeneratorStep
  \/ RefreshModuleDetectedStep
  \/ CmdRunAll
  \/ CmdRunTargetForModuleStep
  \/ CmdRunTargetForAllModulesStep
  \/ CmdRerunFailed
  \/ CmdRunTargetStep
  \/ CmdStopAll
  \/ TaskLaunchedStep
  \/ TaskProcessEndStep
  \/ DiagnosticsSettledStep
  \/ SilentProcessEndStep

ControllerSpec == ControllerInit /\ [][NextController]_vars

\* The run result the module states `moduleStates` hold for a request's
\* (module,target): an object without properties when they hold none.
StoredRun(moduleStates, request) ==
  LET i == find(moduleStates, request.module)
  IN  IF i = 0 THEN EmptyMap ELSE RunsGet(moduleStates[i].runs, request.target)

\* C11: when a silent execution that was in flight at the controller's
\* stopAll finishes after it, the run result of its (module,target) in the
\* state store is not changed.
C11_StoppedResultDiscarded ==
  [][\A e \in Execs :
       (/\ execs[e].stopped
        /\ execs[e].phase = "silent"
        /\ ended'.kind = "silent"
        /\ ended'.exec = e)
         => StoredRun(modules', execs[e].request) = StoredRun(modules, execs[e].request)]_vars

\* The (module,target) pairs of the world.
StoreKeys == {[module |-> m, target |-> t] : m \in Modules, t \in TargetNames}
\* The step is one in which a refresh calls setModules: with the modules it
\* discovered, or with none when it finds no workspace folder.
ResetStep ==
  \/ \E r \in Refreshes : refreshes[r].phase = "discover" /\ refreshes'[r].phase # "discover"
  \/ /\ Len(refreshes') > Len(refreshes)
     /\ refreshes'[Len(refreshes')].phase = "done"

\* C19: a run status of the store that has left idle does not become idle
\* again, and its run does not leave the store to come back idle later, in
\* any step of a controller command or of a scheduler update: that happens
\* only in a step in which a refresh resets the module list with setModules.
C19_IdleOnlyByReset ==
  [][\A k \in StoreKeys :
       (/\ StoredRun(modules, k) \notin {Idle, EmptyMap}
        /\ StoredRun(modules', k) \in {Idle, EmptyMap}) => ResetStep]_vars

\* A run has completed and the store holds its completion status, while a
\* refresh that was called has not reset the module list yet.
C19_Witness ==
  \E e \in Execs :
    /\ execs[e].phase = "done"
    /\ StoredRun(modules, execs[e].request) # EmptyMap
    /\ StoredRun(modules, execs[e].request).status \in {"success", "warning", "failed"}
    /\ \E r \in Refreshes : refreshes[r].phase = "discover"

\* C20: the run status the store holds for a (module,target) changes only in
\* a step in which the scheduler fires an update for that key, the resets of
\* the module list by a refresh apart: runAll, runTargetForModule,
\* runTargetForAllModules, rerunFailed and stopAll change no run status by
\* themselves.
C20_StatusChangesByUpdate ==
  [][\A k \in StoreKeys :
       (/\ StoredRun(modules, k) # EmptyMap
        /\ StoredRun(modules', k) # EmptyMap
        /\ StoredRun(modules', k).status # StoredRun(modules, k).status
        /\ ~ResetStep)
         => \E i \in 1..Len(fired') :
              fired'[i].moduleId = k.module /\ fired'[i].target = k.target]_vars

(***************************************************************************)
(* SequenceSpec: a controller that finds two modules and gets one runAll   *)
(* or one runTargetForModule, with stopAll at any moment, under every      *)
(* order of refresh continuations, task launches and process ends.         *)
(***************************************************************************)
\* What discovery finds in SequenceSpec.
TwoModules == <<"m1", "m2">>

SequenceInit ==
  \E n \in 1..MaxCap, cached \in SUBSET Modules :
    Constructed(refresh(NewControllerOn(n, cached), TRUE))
RefreshDiscoveredTwoStep == \E r \in Refreshes : RefreshDiscovered(r, TwoModules)
\* The one request: no request was handed to the scheduler yet.
RunAllOnceStep == issued = 0 /\ CmdRunAll
RunTargetForModuleOnceStep == issued = 0 /\ \E m \in Modules : CmdRunTargetForModule(m)

NextSequence ==
  \/ RefreshDiscoveredTwoStep
  \/ RefreshModuleCacheStep
  \/ RefreshModuleGeneratorStep
  \/ RefreshModuleDetectedStep
  \/ RunAllOnceStep
  \/ RunTargetForModuleOnceStep
  \/ CmdStopAll
  \/ TaskLaunchedStep
  \/ TaskProcessEndStep
  \/ DiagnosticsSettledStep
  \/ SilentProcessEndStep

SequenceSpec == SequenceInit /\ [][NextSequence]_vars

\* The requests of a module that enqueue accepted, by id, in p and x:
\* those that wait in the queue and those that were dispatched.
HandedIds(p, x, moduleId) ==
  {p[i].id : i \in {j \in 1..Len(p) : p[j].module = moduleId}}
    \cup {x[e].request.id : e \in {j \in 1..Len(x) : x[j].request.module = moduleId}}
HandedTarget(p, x, id) ==
  IF \E i \in 1..Len(p) : p[i].id = id
    THEN p[CHOOSE i \in 1..Len(p) : p[i].id = id].target
    ELSE x[CHOOSE e \in 1..Len(x) : x[e].request.id = id].request.target
\* The requests of a module that wait or whose execution has not completed.
InFlightIds(moduleId) ==
  {pending[i].id : i \in {j \in 1..Len(pending) : pending[j].module = moduleId}}
    \cup {execs[e].request.id :
            e \in {j \in 1..Len(execs) : execs[j].request.module = moduleId
                                           /\ execs[j].phase # "done"}}

\* C21: of one runAll or runTargetForModule the targets of a module reach
\* the scheduler one at a time and in the order of the target list: a module
\* has at most one request queued or executing; a target is enqueued after an
\* earlier one of its module only in a step in which the completion update
\* of the module's previous target is fired, and it comes later in the
\* target list; the 'running' updates of a module come in that order.
C21_OneTargetAtATimeInOrder ==
  /\ [](\A m \in Modules : Cardinality(InFlightIds(m)) <= 1)
  /\ [][\A m \in Modules :
          \A id \in HandedIds(pending', execs', m) \ HandedIds(pending, execs, m) :
            \A before \in HandedIds(pending, execs, m) :
              /\ Place(targets, HandedTarget(pending, execs, before))
                   < Place(targets', HandedTarget(pending', execs', id))
              /\ (\A other \in HandedIds(pending, execs, m) : other <= before) =>
                   \E i \in 1..Len(fired') :
                     /\ IsCompletion(fired'[i])
                     /\ fired'[i].moduleId = m
                     /\ fired'[i].target = HandedTarget(pending, execs, before)]_vars
  /\ [](\A e, f \in Execs :
          (e < f /\ execs[e].request.module = execs[f].request.module) =>
            /\ execs[e].phase = "done"
            /\ Place(targets, execs[e].request.target) < Place(targets, execs[f].request.target))

\* Both targets of a module have run, one after the other, while a target
\* of the other module was executing.
C21_Witness ==
  \E e, f, g \in Execs :
    /\ e < f
    /\ execs[e].request.module = execs[f].request.module
    /\ execs[g].request.module # execs[e].request.module
    /\ execs[f].phase # "done"
    /\ execs[g].phase # "done"

(***************************************************************************)
(* CommandSpec: a controller whose first refresh has found one module or   *)
(* two and has returned, with every outcome for each; it gets one of the   *)
(* run commands, rerunFailed after it, and stopAll, under every order of   *)
(* task launches and process ends.                                         *)
(***************************************************************************)
\* refreshModule for the module refresh r stands at, from its call to its
\* return.
refreshModuleWhole(s, r, detection) ==
  IF s.refreshes[r].phase = "done" THEN s
  ELSE LET moduleId == s.refreshes[r].list[s.refreshes[r].index]
       IN  IF ~hasCMakeCache(s, moduleId) THEN refreshModuleCache(s, r, FALSE)
           ELSE refreshModuleDetected(
                  refreshModuleGenerator(refreshModuleCache(s, r, TRUE), r,
                                         ModuleGenerator(moduleId)),
                  r, detection)

CommandInit ==
  \E n \in 1..MaxCap, list \in DiscoveredLists \cup {TwoModules},
     cached \in SUBSET Modules, detection1, detection2 \in Detections :
    /\ cached \subseteq ListNames(list)
    /\ Constructed(
         refreshModuleWhole(
           refreshModuleWhole(
             refreshDiscovered(refresh(NewControllerOn(n, cached), TRUE), 1, list),
             1, detection1),
           1, detection2))

\* A first run command: no request was handed to the scheduler yet.
RunTargetForAllModulesOnceStep ==
  issued = 0 /\ \E t \in TargetNames : CmdRunTargetForAllModules(t)
RunTargetOnceStep ==
  issued = 0 /\ \E m \in Modules, t \in TargetNames : CmdRunTarget(m, t)

NextCommand ==
  \/ RunAllOnceStep
  \/ RunTargetForModuleOnceStep
  \/ RunTargetForAllModulesOnceStep
  \/ RunTargetOnceStep
  \/ CmdRerunFailed
  \/ CmdStopAll
  \/ TaskLaunchedStep
  \/ TaskProcessEndStep
  \/ DiagnosticsSettledStep
  \/ SilentProcessEndStep

CommandSpec == CommandInit /\ [][NextCommand]_vars

\* availability[target] of the module is true in the module states.
AvailableIn(moduleStates, moduleId, target) ==
  LET i == find(moduleStates, moduleId)
  IN  i # 0 /\ Available(moduleStates[i], target)
\* The ids enqueue accepted in this step for the module.
NewIds(moduleId) == HandedIds(pending', execs', moduleId) \ HandedIds(pending, execs, moduleId)
\* A request for the (module,target) waits or its execution has not completed.
InFlight(moduleId, target) ==
  \E id \in InFlightIds(moduleId) : HandedTarget(pending, execs, id) = target

\* C22: every request a step hands to the scheduler is for a module of the
\* store and a target whose availability is true in the store in that step;
\* and runTargetForAllModules(t) hands a request for t to the scheduler for
\* every module that has t available and no request for t in flight.
C22_OnlyAvailableEnqueued ==
  [][/\ \A m \in Modules : \A id \in NewIds(m) :
          /\ AvailableIn(modules, m, HandedTarget(pending', execs', id))
          /\ AvailableIn(modules', m, HandedTarget(pending', execs', id))
     /\ \A t \in TargetNames :
          CmdRunTargetForAllModules(t) =>
            \A m \in Modules :
              (AvailableIn(modules, m, t) /\ ~InFlight(m, t)) =>
                \E id \in NewIds(m) : HandedTarget(pending', execs', id) = t]_vars

\* runTargetForAllModules has run with the target available for one of two
\* modules: a request for the target is with the scheduler for that module
\* and none for the other.
C22_Witness ==
  /\ Len(modules) = 2
  /\ issued = 1
  /\ \E t \in TargetNames :
       /\ ~AvailableIn(modules, modules[1].module, t)
       /\ AvailableIn(modules, modules[2].module, t)
       /\ \E e \in Execs : /\ execs[e].request.module = modules[2].module
                           /\ execs[e].request.target = t
                           /\ ~execs[e].request.runInTerminal
  /\ runAllQueues = EmptyMap /\ runAllActive = EmptyMap
  /\ runModuleQueues = EmptyMap /\ runModuleActive = EmptyMap

(***************************************************************************)
(* RerunSpec: the controller of CommandSpec gets one runTargetForAllModules *)
(* and then rerunFailed any number of times, with stopAll at any moment.   *)
(***************************************************************************)
RerunFailed ==
  /\ issued < MaxRerunRequests
  /\ Commit(rerunFailed(Runner))

NextRerun ==
  \/ RunTargetForAllModulesOnceStep
  \/ RerunFailed
  \/ CmdStopAll
  \/ TaskLaunchedStep
  \/ TaskProcessEndStep
  \/ DiagnosticsSettledStep
  \/ SilentProcessEndStep

RerunSpec == CommandInit /\ [][NextRerun]_vars

\* The requests for a (module,target) that wait in p or whose execution in x
\* has not completed, by id.
InFlightOf(p, x, k) ==
  {p[i].id : i \in {j \in 1..Len(p) : p[j].module = k.module /\ p[j].target = k.target}}
    \cup {x[e].request.id :
            e \in {j \in 1..Len(x) : /\ x[j].request.module = k.module
                                       /\ x[j].request.target = k.target
                                       /\ x[j].phase # "done"}}
FailedIn(moduleStates, k) ==
  /\ StoredRun(moduleStates, k) # EmptyMap
  /\ StoredRun(moduleStates, k).status = "failed"

AvailableTargets(moduleId) == {name \in ListNames(targets) : AvailableIn(modules, moduleId, name)}

RefreshModuleOf(r) == refreshes[r].list[refreshes[r].index]
\* The step ends refresh r's handling of a module.
ModuleHandled(r) ==
  /\ refreshes[r].phase \in {"cache", "detect"}
  /\ refreshes'[r].phase \in {"cache", "done"}
\* The webview holds the state of the store.
Pushed == view' = [targets |-> targets', modules |-> modules']
NoTargetAvailable(moduleStates, moduleId) ==
  \A name \in ListNames(targets) : ~AvailableIn(moduleStates, moduleId, name)

\* C27: refresh handles the discovered modules one after another in list
\* order; for a module without a CMake cache it runs no configure and no
\* detection command, sets needsConfigure and leaves every dashboard target
\* unavailable; for a module with a cache it runs no configure command and
\* makes each dashboard target available exactly when the detector reported
\* it; it pushes the state after discovery and after each module.
C27_RefreshModuleByModule ==
  [][\A r \in Refreshes :
       \* one after another, in list order
       /\ refreshes[r].phase = "discover" /\ refreshes'[r].phase # "discover"
            => /\ Pushed
               /\ \E list \in {TwoModules} \cup DiscoveredLists :
                    /\ RefreshDiscovered(r, list)
                    /\ refreshes'[r].phase # "done"
                          => /\ refreshes'[r].list = list
                             /\ refreshes'[r].index = 1
                             /\ refreshes'[r].phase = "cache"
       /\ refreshes[r].phase \in {"cache", "generator", "detect"}
            => /\ refreshes'[r].phase # "done"
                    => /\ refreshes'[r].list = refreshes[r].list
                       /\ refreshes'[r].index \in {refreshes[r].index, refreshes[r].index + 1}
                       /\ refreshes'[r].index = refreshes[r].index + 1
                            <=> ModuleHandled(r) /\ refreshes'[r] # refreshes[r]
               /\ refreshes'[r].phase = "done" => refreshes[r].index = Len(refreshes[r].list)
       \* a module without a cache
       /\ RefreshModuleCache(r) /\ ~hasCMakeCache(Runner, RefreshModuleOf(r))
            => /\ ModuleHandled(r)
               /\ configures' = configures
               /\ Pushed
               /\ InStore(RefreshModuleOf(r))
                    => /\ modules'[find(modules', RefreshModuleOf(r))].needsConfigure
                       /\ NoTargetAvailable(modules', RefreshModuleOf(r))
       \* a module with a cache
       /\ RefreshModuleCache(r) /\ hasCMakeCache(Runner, RefreshModuleOf(r))
            => /\ refreshes'[r].phase = "generator"
               /\ configures' = configures
       /\ RefreshModuleGenerator(r)
            => /\ refreshes'[r].phase = "detect"
               /\ configures' = configures
       /\ \A detection \in Detections :
            RefreshModuleDetected(r, detection) /\ ~detection.error
              => /\ ModuleHandled(r)
                 /\ configures' = configures
                 /\ Pushed
                 /\ \A name \in ListNames(targets) :
                      InStore(RefreshModuleOf(r))
                        => (AvailableIn(modules', RefreshModuleOf(r), name)
                              <=> name \in detection.targets)]_vars

\* refresh has handled two modules: the first has no cache, needs a
\* configure and has no available target; the second has a cache and the
\* one target the detector reported is available; the webview holds the
\* state.
C27_Witness ==
  /\ Len(refreshes) = 1 /\ refreshes[1].phase = "done"
  /\ Len(modules) = 2
  /\ cmakeCache = {modules[2].module}
  /\ modules[1].needsConfigure /\ NoTargetAvailable(modules, modules[1].module)
  /\ ~modules[2].needsConfigure
  /\ AvailableIn(modules, modules[2].module, "t1")
  /\ ~AvailableIn(modules, modules[2].module, "t2")
  /\ view = [targets |-> targets, modules |-> modules]
  /\ issued = 0

(***************************************************************************)
(* Detection errors.                                                       *)
(***************************************************************************)
\* An introspection command detectTargets runs fails, or they all list
\* nothing.
DetectionFails(generator, first, all, fallback) ==
  LET found == IF generator = "Ninja" THEN first.targets \cup all.targets ELSE first.targets
  IN  \/ first.failed
      \/ generator = "Ninja" /\ all.failed
      \/ found = {} /\ (fallback.failed \/ fallback.targets = {})

\* C28: when an introspection command of the target detector fails or
\* the commands yield nothing while refresh detects the targets of a
\* module, detectTargets yields the empty set, the module ends with every
\* dashboard target unavailable, its configure status is not set to failed
\* and its needsConfigure is not set to true.
C28_DetectionErrorIsNoConfigureError ==
  [][\A r \in Refreshes, first \in CommandResults, all \in CommandResults,
        fallback \in CommandResults :
       refreshes[r].phase = "detect" =>
         LET moduleId == RefreshModuleOf(r)
             generator == ModuleGenerator(moduleId)
             detection == detectTargets(generator, first, all, fallback)
         IN  (/\ DetectionFails(generator, first, all, fallback)
              /\ RefreshModuleDetected(r, detection)
              /\ InStore(moduleId))
               => /\ detection = Detected({})
                  /\ NoTargetAvailable(modules', moduleId)
                  /\ LET before == modules[find(modules, moduleId)]
                         after == modules'[find(modules', moduleId)]
                     IN  /\ after.configure.status = "failed"
                              => before.configure.status = "failed"
                         /\ after.needsConfigure => before.needsConfigure]_vars

(***************************************************************************)
(* selectGenerator.  A CMakeCache.txt is its lines; a line is the name     *)
(* that stands before `=`, the text of the value and whether the value is  *)
(* written with blanks around it.                                          *)
(***************************************************************************)
BuildSystems == {"auto", "ninja", "make"}
CMakeGenerators == {"Ninja", "Unix Makefiles"}
GeneratorEntry == "CMAKE_GENERATOR:INTERNAL"
CacheLines ==
  {[name |-> GeneratorEntry, text |-> text, padded |-> padded] :
     text \in {"", "Ninja", "ninja", "Unix Makefiles", "Visual Studio 17 2022"},
     padded \in BOOLEAN}
    \cup {[name |-> "CMAKE_BUILD_TYPE:STRING", text |-> "Debug", padded |-> FALSE]}
\* out/CMakeCache.txt: missing, not readable, or a text.
CacheFiles ==
  {NoFile, [exists |-> TRUE, readable |-> FALSE, lines |-> <<>>]}
    \cup {[exists |-> TRUE, readable |-> TRUE, lines |-> lines] :
            lines \in UNION {[1..n -> CacheLines] : n \in 0..MaxLines}}
\* `ninja --version`: it runs, the command is not found, or it exits non-zero.
NinjaProbes == {"available", "missing", "fails"}
\* JavaScript's null.
Null == "null"

\* contents.match(/^CMAKE_GENERATOR:INTERNAL=(.+)$/m): the first line from
\* line i on that matches, 0 if none does; `.+` needs a character.
RECURSIVE Match(_, _)
Match(lines, i) ==
  IF i > Len(lines) THEN 0
  ELSE IF lines[i].name = GeneratorEntry /\ (lines[i].text # "" \/ lines[i].padded) THEN i
  ELSE Match(lines, i + 1)

\* match[1].trim()
Trim(line) == line.text

detectExistingGenerator(cacheFile) ==
  IF ~cacheFile.exists \/ ~cacheFile.readable THEN Null
  ELSE LET i == Match(cacheFile.lines, 1)
       IN  IF i = 0 THEN Null
           ELSE IF Trim(cacheFile.lines[i]) = "Ninja" THEN "Ninja"
           ELSE IF Trim(cacheFile.lines[i]) = "Unix Makefiles" THEN "Unix Makefiles"
           ELSE Null

\* commandExists('ninja')
commandExists(probe) == probe = "available"

\* A selectGenerator that asks for the tool before it looks at the cache.
selectGenerator_probesFirst(preference, cacheFile, ninja) ==
  IF preference = "ninja"
    THEN [generator |-> "Ninja", readCache |-> FALSE, probed |-> FALSE]
  ELSE IF preference = "make"
    THEN [generator |-> "Unix Makefiles", readCache |-> FALSE, probed |-> FALSE]
  ELSE IF commandExists(ninja)
    THEN [generator |-> "Ninja", readCache |-> FALSE, probed |-> TRUE]
  ELSE [generator |-> IF detectExistingGenerator(cacheFile) # Null
                        THEN detectExistingGenerator(cacheFile) ELSE "Unix Makefiles",
        readCache |-> TRUE, probed |-> TRUE]

\* selectGenerator: the generator, whether the cache was read and whether
\* the tool was asked for.
selectGenerator(preference, cacheFile, ninja) ==
  IF preference = "ninja"
    THEN [generator |-> "Ninja", readCache |-> FALSE, probed |-> FALSE]
  ELSE IF preference = "make"
    THEN [generator |-> "Unix Makefiles", readCache |-> FALSE, probed |-> FALSE]
  ELSE IF detectExistingGenerator(cacheFile) # Null
    THEN [generator |-> detectExistingGenerator(cacheFile),
          readCache |-> TRUE, probed |-> FALSE]
  ELSE [generator |-> IF commandExists(ninja) THEN "Ninja" ELSE "Unix Makefiles",
        readCache |-> TRUE, probed |-> TRUE]

(***************************************************************************)
(* GeneratorSpec: selectGenerator called once, with every preference,      *)
(* cache file and state of the ninja tool.                                 *)
(***************************************************************************)
GeneratorInit ==
  \E preference \in BuildSystems, cacheFile \in CacheFiles, ninja \in NinjaProbes :
    Constructed([NewController(1) EXCEPT
                   !.generatorCall = [NoGeneratorCall EXCEPT !.buildSystem = preference,
                                                             !.cacheFile = cacheFile,
                                                             !.ninja = ninja]])

SelectGenerator ==
  /\ ~generatorCall.returned
  /\ LET result == selectGenerator(generatorCall.buildSystem, generatorCall.cacheFile,
                                   generatorCall.ninja)
     IN  Commit([Runner EXCEPT !.generatorCall = [@ EXCEPT !.returned = TRUE,
                                                          !.generator = result.generator,
                                                          !.readCache = result.readCache,
                                                          !.probed = result.probed]])

NextGenerator == SelectGenerator

GeneratorSpec == GeneratorInit /\ [][NextGenerator]_vars

\* The CMAKE_GENERATOR:INTERNAL lines of a cache file.
GeneratorLines(cacheFile) ==
  {i \in 1..Len(cacheFile.lines) : cacheFile.lines[i].name = GeneratorEntry}

\* C29: selectGenerator always returns one of the two generators: Ninja
\* for preference ninja and Unix Makefiles for preference make, without
\* reading the cache; for preference auto, the generator named in the
\* CMAKE_GENERATOR:INTERNAL line of the cache when it is one of the two;
\* with no cache, an unreadable cache, no such line or an unknown value,
\* Ninja if the ninja tool is available and Unix Makefiles if it is not or
\* the probe fails.
C29_SelectGenerator ==
  generatorCall.returned =>
    LET cacheFile == generatorCall.cacheFile
        named == {cacheFile.lines[i].text : i \in GeneratorLines(cacheFile)}
    IN  /\ generatorCall.generator \in CMakeGenerators
        /\ generatorCall.buildSystem = "ninja"
             => generatorCall.generator = "Ninja" /\ ~generatorCall.readCache
        /\ generatorCall.buildSystem = "make"
             => generatorCall.generator = "Unix Makefiles" /\ ~generatorCall.readCache
        /\ generatorCall.buildSystem = "auto"
             => /\ \A generator \in CMakeGenerators :
                     cacheFile.readable /\ Cardinality(GeneratorLines(cacheFile)) = 1
                       /\ named = {generator}
                       => generatorCall.generator = generator
                /\ ~cacheFile.readable \/ named \cap CMakeGenerators = {}
                     => generatorCall.generator =
                          IF generatorCall.ninja = "available" THEN "Ninja"
                          ELSE "Unix Makefiles"

\* selectGenerator was called with preference auto while the ninja tool is
\* available and the cache names Unix Makefiles, with blanks around the
\* name: it returned Unix Makefiles.
C29_Witness ==
  /\ generatorCall.returned
  /\ generatorCall.buildSystem = "auto"
  /\ generatorCall.ninja = "available"
  /\ generatorCall.cacheFile.readable
  /\ \E i \in 1..Len(generatorCall.cacheFile.lines) :
       /\ GeneratorLines(generatorCall.cacheFile) = {i}
       /\ generatorCall.cacheFile.lines[i].text = "Unix Makefiles"
       /\ generatorCall.cacheFile.lines[i].padded
  /\ generatorCall.generator = "Unix Makefiles"

(***************************************************************************)
(* discoverModules.  A name is the sequence of its characters; an entry of *)
(* the root is its name, whether it is a directory, whether the directory  *)
(* can be read and the entries it holds.                                   *)
(***************************************************************************)
Chars == {"A", "B", "a", "b"}
\* The UTF-16 code unit of a character.
CodeUnit(char) ==
  IF char = "A" THEN 65 ELSE IF char = "B" THEN 66 ELSE IF char = "a" THEN 97 ELSE 98
\* The letter of a character in the alphabet, and whether it is a capital:
\* what a collation compares first and what it compares last.
Letter(char) == IF char \in {"A", "a"} THEN 1 ELSE 2
Capital(char) == IF char \in {"A", "B"} THEN 1 ELSE 0
Names == UNION {[1..n -> Chars] : n \in 1..MaxNameLen}

CMAKE_LISTS == "CMakeLists.txt"
CUSTOM_TARGETS == "custom_targets.cmake"
\* What a directory of the root may hold.
DirectoryContents ==
  {{},
   {[name |-> "main.c", file |-> TRUE]},
   {[name |-> CMAKE_LISTS, file |-> TRUE]},
   {[name |-> CUSTOM_TARGETS, file |-> TRUE], [name |-> "main.c", file |-> TRUE]},
   {[name |-> CMAKE_LISTS, file |-> TRUE], [name |-> CUSTOM_TARGETS, file |-> TRUE]},
   {[name |-> CMAKE_LISTS, file |-> FALSE]}}
\* An entry of the root but for its name: a file, a directory that cannot
\* be read, or a directory with its contents.
EntryShapes ==
  {[directory |-> FALSE, readable |-> TRUE, contents |-> {}],
   [directory |-> TRUE, readable |-> FALSE, contents |-> {}]}
    \cup {[directory |-> TRUE, readable |-> TRUE, contents |-> contents] :
            contents \in DirectoryContents}
\* The entries fs.readdir may list for the root, in the order it lists them.
EntryLists ==
  UNION {{entries \in [1..n -> [name : Names, shape : EntryShapes]] :
            \A i \in 1..n, j \in 1..n : i # j => entries[i].name # entries[j].name} :
         n \in 0..MaxEntries}
\* The root: missing, not readable, or a directory with its entries.
Roots ==
  {NoDirectory, [exists |-> TRUE, readable |-> FALSE, entries |-> <<>>]}
    \cup {[exists |-> TRUE, readable |-> TRUE, entries |-> entries] : entries \in EntryLists}
\* The excludedModules of a dashboard.
ExcludedSets == {{}, {<<"a">>}, {<<"B">>}}

\* -1, 0 or 1 as the sequence of numbers a comes before, equals or comes
\* after b, the first difference deciding and a prefix coming first.
RECURSIVE Compare(_, _)
Compare(a, b) ==
  IF a = <<>> /\ b = <<>> THEN 0
  ELSE IF a = <<>> THEN -1
  ELSE IF b = <<>> THEN 1
  ELSE IF Head(a) < Head(b) THEN -1
  ELSE IF Head(a) > Head(b) THEN 1
  ELSE Compare(Tail(a), Tail(b))

\* The order of the code units of two names.
codeUnitCompare(a, b) ==
  Compare([i \in 1..Len(a) |-> CodeUnit(a[i])], [i \in 1..Len(b) |-> CodeUnit(b[i])])

\* String.prototype.localeCompare: the collation of the locale compares the
\* letters first and the case of the letters when the letters are the same,
\* the small letter first.
localeCompare(a, b) ==
  LET letters == Compare([i \in 1..Len(a) |-> Letter(a[i])],
                         [i \in 1..Len(b) |-> Letter(b[i])])
  IN  IF letters # 0 THEN letters
      ELSE Compare([i \in 1..Len(a) |-> Capital(a[i])], [i \in 1..Len(b) |-> Capital(b[i])])

\* Array.prototype.sort with localeCompare: a stable sort.
RECURSIVE Insert(_, _)
Insert(sorted, name) ==
  IF sorted = <<>> THEN <<name>>
  ELSE IF localeCompare(sorted[Len(sorted)], name) <= 0 THEN Append(sorted, name)
  ELSE Append(Insert(SubSeq(sorted, 1, Len(sorted) - 1), name), sorted[Len(sorted)])
RECURSIVE Sort(_)
Sort(names) ==
  IF names = <<>> THEN <<>>
  ELSE Insert(Sort(SubSeq(names, 1, Len(names) - 1)), names[Len(names)])

\* isModuleDirectory: readdir of the directory, some entry is a file named
\* as a marker; false when readdir throws.
isModuleDirectory(shape) ==
  /\ shape.readable
  /\ \E entry \in shape.contents :
       entry.file /\ (entry.name = CMAKE_LISTS \/ entry.name = CUSTOM_TARGETS)

\* The loop of discoverModules over the entries.
RECURSIVE Collect(_, _)
Collect(entries, excludedModules) ==
  IF entries = <<>> THEN <<>>
  ELSE LET entry == Head(entries)
           rest == Collect(Tail(entries), excludedModules)
       IN  IF ~entry.shape.directory THEN rest
           ELSE IF entry.name \in excludedModules THEN rest
           ELSE IF isModuleDirectory(entry.shape) THEN <<entry.name>> \o rest
           ELSE rest

\* discoverModules: the names of the modules it returns, in their order.
discoverModules(root, excludedModules) ==
  IF ~root.exists \/ ~root.readable THEN <<>>
  ELSE Sort(Collect(root.entries, excludedModules))

(***************************************************************************)
(* DiscoverSpec: discoverModules called once, with every root and          *)
(* excluded set.                                                           *)
(***************************************************************************)
DiscoverInit ==
  \E root \in Roots, excludedModules \in ExcludedSets :
    Constructed([NewController(1) EXCEPT
                   !.discoverCall = [NoDiscoverCall EXCEPT !.root = root,
                                                           !.excludedModules = excludedModules]])

DiscoverModules ==
  /\ ~discoverCall.returned
  /\ Commit([Runner EXCEPT
               !.discoverCall = [@ EXCEPT !.returned = TRUE,
                                          !.modules =
                                            discoverModules(discoverCall.root,
                                                            discoverCall.excludedModules)]])

NextDiscover == DiscoverModules

DiscoverSpec == DiscoverInit /\ [][NextDiscover]_vars

\* The names of the entries of the root that are modules.
ModuleEntries(root, excludedModules) ==
  {root.entries[i].name : i \in {j \in 1..Len(root.entries) :
     /\ root.entries[j].shape.directory
     /\ root.entries[j].name \notin excludedModules
     /\ \E entry \in root.entries[j].shape.contents :
          entry.file /\ entry.name \in {CMAKE_LISTS, CUSTOM_TARGETS}}}

\* C30: discoverModules returns exactly the entries of the root that are
\* directories, are not excluded and hold a marker file as a regular file,
\* each once, sorted by name in ascending case-sensitive lexical order; a
\* root that is missing or cannot be read yields the empty list.
C30_DiscoverModulesSorted ==
  discoverCall.returned =>
    LET root == discoverCall.root
        found == discoverCall.modules
    IN  /\ ~root.exists \/ ~root.readable => found = <<>>
        /\ ListNames(found) = ModuleEntries(root, discoverCall.excludedModules)
        /\ \A i \in 1..Len(found), j \in 1..Len(found) : i # j => found[i] # found[j]
        /\ \A i \in 1..Len(found), j \in 1..Len(found) :
             i < j => codeUnitCompare(found[i], found[j]) < 0

(***************************************************************************)
(* configureModule and reconfigureModule.  A call is a record of           *)
(* `configures`; its phase is the await it stands at:                      *)
(*   "remove"     reconfigureModule awaits removeOutDir                    *)
(*   "pick"       configureModule awaits the quick pick of the generator   *)
(*   "generator"  configureAndDetect awaits selectGenerator                *)
(*   "launch"     runConfigureTask awaits vscode.tasks.executeTask         *)
(*   "task"       configureAndDetect awaits the promise of the resolver    *)
(*   "detect"     configureAndDetect awaits detectTargets                  *)
(*   "done"       the command has returned                                 *)
(* and its process is the configure process of its task: "none" before     *)
(* executeTask, "running", "ended".                                        *)
(***************************************************************************)
NewConfigure(command, moduleId) ==
  [command |-> command, module |-> moduleId, phase |-> "done", preference |-> "auto",
   generator |-> NoGenerator, process |-> "none"]

\* configureAndDetect(module, selected, false, true) from its call to the
\* await of selectGenerator.
configureAndDetect(s, c, preference) ==
  [pushState(updateConfigure(s, s.configures[c].module,
                             [status |-> "running", updatedAt |-> Now]))
     EXCEPT !.configures[c].preference = preference,
            !.configures[c].phase = "generator"]

\* configureModule from its call to its first await that waits;
\* `preference` is the buildSystem setting.
configureModuleFrom(s, c, preference) ==
  IF find(s.modules, s.configures[c].module) = 0
    THEN [s EXCEPT !.configures[c].phase = "done"]
  ELSE IF preference = "auto" THEN [s EXCEPT !.configures[c].phase = "pick"]
  ELSE configureAndDetect(s, c, preference)

configureModule(s, moduleId, preference) ==
  configureModuleFrom([s EXCEPT !.configures =
                                    Append(@, NewConfigure("configureModule", moduleId))],
                      Len(s.configures) + 1, preference)

\* pickGeneratorIfNeeded from the return of the quick pick; Null when it
\* was dismissed.
generatorPicked(s, c, selection) ==
  IF selection = "Ninja" THEN configureAndDetect(s, c, "ninja")
  ELSE IF selection = "Unix Makefiles" THEN configureAndDetect(s, c, "make")
  ELSE [s EXCEPT !.configures[c].phase = "done"]

\* configureAndDetect from the return of selectGenerator to the await of
\* executeTask in runConfigureTask: the task runs `cmake -S ./ -B out -G
\* generator`.
configureGenerator(s, c, generator) ==
  [s EXCEPT !.configureTaskNames = Put(@, s.configures[c].module, "configure"),
            !.configures[c].generator = generator,
            !.configures[c].process = "running",
            !.configures[c].phase = "launch"]

\* runConfigureTask from the return of executeTask: the promise it returns
\* stores its resolver.
configureTaskLaunched(s, c) ==
  [s EXCEPT !.configureResolvers = Put(@, s.configures[c].module, c),
            !.configures[c].phase = "task"]

\* The catch of configureAndDetect and the return of configureModule.
configureFailed(s, c) ==
  LET moduleId == s.configures[c].module
      s1 == pushState(updateConfigure(s, moduleId,
                                      [status |-> "failed", output |-> "Configure failed.",
                                       updatedAt |-> Now]))
      s2 == SetAvailabilities(setNeedsConfigure(s1, moduleId, TRUE), moduleId, s1.targets, {})
  IN  [pushState(s2) EXCEPT !.configures[c].phase = "done"]

\* configureAndDetect from the resolution of runConfigureTask's promise to
\* the await of detectTargets, or through its catch.
configureTaskEnded(s, c, exitCode) ==
  IF exitCode # 0 THEN configureFailed(s, c)
  ELSE LET moduleId == s.configures[c].module
       IN  [pushState(updateConfigure(
                        setNeedsConfigure(
                          setModuleGenerator(s, moduleId, s.configures[c].generator),
                          moduleId, FALSE),
                        moduleId,
                        [status |-> "success", output |-> "See terminal.",
                         updatedAt |-> Now]))
              EXCEPT !.configures[c].phase = "detect"]

\* handleConfigureTaskEnd for the process of call c: cmake has written the
\* cache when it exits with 0; the resolver stored for the module is called.
handleConfigureTaskEnd(s, c, exitCode) ==
  LET moduleId == s.configures[c].module
      s1 == [s EXCEPT !.configures[c].process = "ended",
                      !.cmakeCache = IF exitCode = 0 THEN @ \cup {moduleId} ELSE @]
  IN  IF Has(s1.configureResolvers, moduleId)
        THEN configureTaskEnded([s1 EXCEPT !.configureResolvers = Del(@, moduleId)],
                                s1.configureResolvers[moduleId], exitCode)
        ELSE s1

\* configureAndDetect from the return of detectTargets, and the return of
\* configureModule.
configureDetected(s, c, detection) ==
  IF detection.error THEN configureFailed(s, c)
  ELSE [pushState(SetAvailabilities(s, s.configures[c].module, s.targets, detection.targets))
          EXCEPT !.configures[c].phase = "done"]

\* reconfigureModule from its call to the await of removeOutDir.
reconfigureModule(s, moduleId) ==
  [s EXCEPT !.configures =
              Append(@, [NewConfigure("reconfigureModule", moduleId)
                           EXCEPT !.phase = IF find(s.modules, moduleId) = 0
                                              THEN "done" ELSE "remove"])]

\* reconfigureModule from the return of removeOutDir, which has removed
\* out/ or has failed to, into configureModule.
outDirRemoved(s, c, removed, preference) ==
  LET moduleId == s.configures[c].module
      s1 == [s EXCEPT !.cmakeCache = IF removed THEN @ \ {moduleId} ELSE @]
  IN  configureModuleFrom(pushState(setNeedsConfigure(s1, moduleId, TRUE)), c, preference)

Configures == 1..Len(configures)

CmdConfigureModule(m, preference) ==
  /\ Len(configures) < MaxConfigures
  /\ Commit(configureModule(Runner, m, preference))
CmdReconfigureModule(m) ==
  /\ Len(configures) < MaxConfigures
  /\ Commit(reconfigureModule(Runner, m))
OutDirRemoved(c, removed, preference) ==
  /\ configures[c].phase = "remove"
  /\ Commit(outDirRemoved(Runner, c, removed, preference))
GeneratorPicked(c, selection) ==
  /\ configures[c].phase = "pick"
  /\ Commit(generatorPicked(Runner, c, selection))
\* The preference is ninja or make here: selectGenerator reads no file.
ConfigureGenerator(c) ==
  /\ configures[c].phase = "generator"
  /\ Commit(configureGenerator(Runner, c,
                                selectGenerator(configures[c].preference, NoFile,
                                                "missing").generator))
ConfigureTaskLaunched(c) ==
  /\ configures[c].phase = "launch"
  /\ Commit(configureTaskLaunched(Runner, c))
\* The end of the process reaches the extension after the return of
\* executeTask.
ConfigureTaskEnd(c, exitCode) ==
  /\ configures[c].process = "running"
  /\ configures[c].phase # "launch"
  /\ Commit(handleConfigureTaskEnd(Runner, c, exitCode))
ConfigureDetected(c, detection) ==
  /\ configures[c].phase = "detect"
  /\ Commit(configureDetected(Runner, c, detection))

(***************************************************************************)
(* ConfigureSpec: after the refresh of the constructor has returned, the   *)
(* configure commands in every order with the ends of their tasks.         *)
(***************************************************************************)
CmdConfigureModuleStep ==
  \E m \in Modules, preference \in BuildSystems : CmdConfigureModule(m, preference)
CmdReconfigureModuleStep == \E m \in Modules : CmdReconfigureModule(m)
OutDirRemovedStep ==
  \E c \in Configures, removed \in BOOLEAN, preference \in BuildSystems :
    OutDirRemoved(c, removed, preference)
GeneratorPickedStep ==
  \E c \in Configures, selection \in CMakeGenerators \cup {Null} : GeneratorPicked(c, selection)
ConfigureGeneratorStep == \E c \in Configures : ConfigureGenerator(c)
ConfigureTaskLaunchedStep == \E c \in Configures : ConfigureTaskLaunched(c)
ConfigureTaskEndStep == \E c \in Configures, exitCode \in ExitCodes : ConfigureTaskEnd(c, exitCode)
ConfigureDetectedStep ==
  \E c \in Configures, detection \in Detections : ConfigureDetected(c, detection)

NextConfigure ==
  \/ CmdConfigureModuleStep
  \/ CmdReconfigureModuleStep
  \/ OutDirRemovedStep
  \/ GeneratorPickedStep
  \/ ConfigureGeneratorStep
  \/ ConfigureTaskLaunchedStep
  \/ ConfigureTaskEndStep
  \/ ConfigureDetectedStep

ConfigureSpec == CommandInit /\ [][NextConfigure]_vars

\* C26: configureModule on a module whose out/ holds a CMake cache does not
\* run the configure command: when its configureAndDetect comes to the
\* configure step it launches no configure process and goes on to detect
\* the targets.
C26_ConfigureSkippedWithCache ==
  [][\A c \in Configures :
       (/\ ConfigureGenerator(c)
        /\ configures[c].command = "configureModule"
        /\ hasCMakeCache(Runner, configures[c].module))
         => /\ configures'[c].process = "none"
            /\ configures'[c].phase = "detect"]_vars

\* A configure command or a refresh is under way: a refresh handles every
\* module of the store.
InProgress(moduleId) ==
  \/ \E c \in Configures : configures[c].module = moduleId /\ configures[c].phase # "done"
  \/ \E r \in Refreshes : refreshes[r].phase # "done"

\* C25: while no configure command and no refresh is under way for a
\* module, configure status failed goes with needsConfigure true, success
\* with needsConfigure false and idle with needsConfigure true; and a
\* configure task that ends with a non-zero or unknown exit code, or a
\* detection that throws, leaves status failed and needsConfigure true.
C25_NeedsConfigureAgreesWithStatus ==
  /\ [](\A i \in 1..Len(modules) :
          ~InProgress(modules[i].module)
            => /\ modules[i].configure.status = "failed" => modules[i].needsConfigure
               /\ modules[i].configure.status = "success" => ~modules[i].needsConfigure
               /\ modules[i].configure.status = "idle" => modules[i].needsConfigure)
  /\ [][\A c \in Configures :
          (/\ InStore(configures[c].module)
           /\ \/ \E exitCode \in ExitCodes \ {0} :
                   /\ Has(configureResolvers, configures[c].module)
                   /\ configureResolvers[configures[c].module] = c
                   /\ ConfigureTaskEnd(c, exitCode)
              \/ ConfigureDetected(c, DetectThrows))
            => LET after == modules'[find(modules', configures[c].module)]
               IN  after.configure.status = "failed" /\ after.needsConfigure]_vars

(***************************************************************************)
(* Escalation.                                                             *)
(***************************************************************************)
\* The updates of `updates` for `key` that satisfy the status test.
RunningUpdatesFor(updates, key) ==
  {i \in 1..Len(updates) : /\ updates[i].status = "running"
                           /\ <<updates[i].moduleId, updates[i].target>> = key}
CompletionUpdatesFor(updates, key) ==
  {i \in 1..Len(updates) : /\ IsCompletion(updates[i])
                           /\ <<updates[i].moduleId, updates[i].target>> = key}
\* The keys a step speaks of: those of its updates and of the executions.
StepKeys(updates, executions) ==
  {<<updates[i].moduleId, updates[i].target>> : i \in 1..Len(updates)}
    \cup {KeyOf(executions[e].request) : e \in DOMAIN executions}

\* C33: escalation happens at most once per request and only from silent
\* to terminal-attached.  A request enqueued in terminal-attached mode is
\* never executed silently; a request is dispatched into one execution; its
\* silent process is started at dispatch only and its task is launched at
\* most once, at dispatch or at the escalation; an escalated execution is
\* never silent again; every 'running' update is the one of a dispatch or of
\* an escalation, and an execution completes with one completion update.
C33_EscalatesAtMostOnce ==
  /\ [](\A e \in Execs :
         /\ execs[e].phase = "silent" =>
               ~execs[e].request.runInTerminal /\ ~execs[e].escalated
         /\ execs[e].request.runInTerminal =>
               ~execs[e].escalated /\ execs[e].command = NoCommand
         /\ execs[e].escalated =>
               execs[e].command # NoCommand /\ execs[e].task # NoCommand
         /\ \A f \in Execs : execs[f].request.id = execs[e].request.id => f = e)
  /\ [][/\ Len(execs') >= Len(execs)
        /\ \A e \in Execs :
             /\ execs'[e].request = execs[e].request
             /\ execs'[e].command = execs[e].command
             /\ execs[e].task # NoCommand => execs'[e].task = execs[e].task
             /\ execs[e].escalated => execs'[e].escalated
             /\ execs'[e].phase = "silent" => execs[e].phase = "silent"
             /\ execs[e].phase = "done" => execs'[e].phase = "done"
        /\ \A key \in StepKeys(fired', execs') :
             /\ Cardinality(RunningUpdatesFor(fired', key)) =
                  Cardinality({e \in DOMAIN execs' \ Execs : KeyOf(execs'[e].request) = key})
                  + Cardinality({e \in Execs : /\ KeyOf(execs[e].request) = key
                                               /\ ~execs[e].escalated
                                               /\ execs'[e].escalated})
             /\ Cardinality(CompletionUpdatesFor(fired', key)) =
                  Cardinality({e \in Execs : /\ KeyOf(execs[e].request) = key
                                             /\ execs[e].phase # "done"
                                             /\ execs'[e].phase = "done"})]_vars

\* An escalated request has completed: a silent process, a terminal task and
\* the completion update, while a request of terminal-attached mode ran too.
C33_Witness ==
  /\ \E e \in Execs : execs[e].escalated /\ execs[e].phase = "done"
  /\ \E e \in Execs : execs[e].request.runInTerminal /\ execs[e].phase = "done"

(***************************************************************************)
(* The settle-wait and a second execution of the key.                      *)
(***************************************************************************)
\* C35: a key is never dispatched again before the completion update of its
\* previous execution has been emitted.  No step dispatches a key while an
\* execution of that key is in the diagnostics settle-wait, and the step in
\* which an execution completes leaves the bookkeeping (module path, start
\* time, auto-close flag, captured output) of another execution of the key
\* that is still under way in place.
C35_NoDispatchBeforeCompletion ==
  [][\A e \in Execs :
       /\ execs[e].phase = "settling" =>
             \A f \in DOMAIN execs' \ Execs :
               KeyOf(execs'[f].request) # KeyOf(execs[e].request)
       /\ (execs[e].phase # "done" /\ execs'[e].phase = "done") =>
             \A f \in Execs \ {e} :
               (/\ KeyOf(execs[f].request) = KeyOf(execs[e].request)
                /\ execs[f].phase \in {"launching", "task"}
                /\ Has(modulePaths, KeyOf(execs[f].request))
                /\ runStartedAt[KeyOf(execs[f].request)] = f)
                 => /\ Has(modulePaths', KeyOf(execs[f].request))
                    /\ Has(runStartedAt', KeyOf(execs[f].request))
                    /\ Has(autoCloseOnSuccess', KeyOf(execs[f].request))
                    /\ Has(taskOutput', KeyOf(execs[f].request))]_vars

(***************************************************************************)
(* After stopAll.                                                          *)
(***************************************************************************)
\* C36: after stopAll on the dashboard controller nothing is started until
\* a new run command is issued.  In SequenceSpec no run command follows a
\* request that was handed to the scheduler, so from the stopAll that found
\* a silent execution in flight on, no step enqueues or dispatches a
\* request, creates a terminal task for an execution or fires a 'running'
\* update.
C36_NothingStartsAfterStopAll ==
  [][(\E e \in Execs : execs[e].stopped) =>
       /\ Len(execs') = Len(execs)
       /\ pending' = <<>>
       /\ \A e \in Execs : execs'[e].task = execs[e].task
       /\ \A i \in 1..Len(fired') : fired'[i].status # "running"]_vars

(***************************************************************************)
(* The store and the work under way.                                       *)
(***************************************************************************)
\* C38: the state store never understates running work.  Whenever an
\* execution has been dispatched and has not fired its completion update,
\* and the store holds a run for its (module,target), the status of that
\* run is running.
C38_StoreShowsRunningWork ==
  \A e \in Execs :
    (/\ execs[e].phase # "done"
     /\ InStore(execs[e].request.module)
     /\ StoredRun(modules, execs[e].request) # EmptyMap)
      => StoredRun(modules, execs[e].request).status = "running"

(***************************************************************************)
(* InterruptSpec: a controller whose first refresh found one module and    *)
(* has returned gets one runAll or one runTargetForModule, and stopAll at  *)
(* any moment, under every order of task launches and process ends.        *)
(***************************************************************************)
NextInterrupt ==
  \/ RunAllOnceStep
  \/ RunTargetForModuleOnceStep
  \/ CmdStopAll
  \/ TaskLaunchedStep
  \/ TaskProcessEndStep
  \/ DiagnosticsSettledStep
  \/ SilentProcessEndStep

\* The first refresh found one module.
OneModuleInit == CommandInit /\ Len(modules) = 1

InterruptSpec == OneModuleInit /\ [][NextInterrupt]_vars

\* Some execution stands at the await `phase`.
Awaits(phase) == \E e \in Execs : execs[e].phase = phase

\* Nothing is queued or under way and no sequence has a target waiting:
\* without a new command no handler of the scheduler or of the controller
\* runs any more.
AtRest ==
  /\ pending = <<>>
  /\ Started = {}
  /\ runAllQueues = EmptyMap /\ runAllActive = EmptyMap
  /\ runModuleQueues = EmptyMap /\ runModuleActive = EmptyMap

\* The store holds status running for the (module,target) k.
StoredRunning(k) ==
  /\ StoredRun(modules, k) # EmptyMap
  /\ StoredRun(modules, k).status = "running"

\* C37: no run status stays running forever.  Every process that was
\* started having exited, with nothing queued and no target of a sequence
\* waiting, also after a stopAll that found a runTargetForModule or runAll
\* sequence with targets waiting, no (module,target) is left with run
\* status running in the store: there it would stay for ever.
C37_RunningEnds ==
  AtRest => \A k \in StoreKeys : ~StoredRunning(k)

(***************************************************************************)
(* BulkSpec: a controller whose first refresh found one module and has     *)
(* returned gets runAll and runTargetForModule in any number and order,    *)
(* under every order of task launches and process ends.                    *)
(***************************************************************************)
RunAllBulkStep ==
  /\ issued < MaxBulkRequests
  /\ Commit(runAll(Runner))
RunTargetForModuleBulkStep ==
  /\ issued < MaxBulkRequests
  /\ \E m \in Modules : Commit(runTargetForModule(Runner, m))

NextBulk ==
  \/ RunAllBulkStep
  \/ RunTargetForModuleBulkStep
  \/ TaskLaunchedStep
  \/ TaskProcessEndStep
  \/ DiagnosticsSettledStep
  \/ SilentProcessEndStep

BulkSpec == OneModuleInit /\ [][NextBulk]_vars

\* The targets of a module that wait in the scheduler's queue or whose
\* execution has not completed.
InFlightTargets(moduleId) ==
  {pending[i].target : i \in {j \in 1..Len(pending) : pending[j].module = moduleId}}
    \cup {execs[e].request.target :
            e \in {j \in 1..Len(execs) : execs[j].request.module = moduleId
                                           /\ execs[j].phase # "done"}}

\* No (module,target) has two requests queued or in flight.
EachKeyOnce ==
  \A m \in Modules : Cardinality(InFlightIds(m)) = Cardinality(InFlightTargets(m))

\* C39: at any time at most one target of a module is queued or in flight
\* in the scheduler as a result of runAll and runTargetForModule, whatever
\* sequence of these two commands is issued.  The formula asks it of the
\* steps that start where no (module,target) has two requests queued or in
\* flight and every module has at most one target there: no step takes a
\* module to two targets queued or in flight.
C39_OneTargetPerModuleInFlight ==
  [][\A m \in Modules :
       (EachKeyOnce /\ Cardinality(InFlightTargets(m)) <= 1)
         => Cardinality(InFlightTargets(m))' <= 1]_vars

(***************************************************************************)
(* The configure task and the call that waits for it.                      *)
(***************************************************************************)
\* C40: every configure-and-detect invocation that launches a terminal
\* configure task returns once that task's process has ended and uses the
\* exit code of its own task, also when another configure or reconfigure of
\* the same module is started meanwhile.  A call that waits for its task
\* goes on only in the step in which its own process ends, and no call
\* still waits when its process has ended: such a call would wait for ever,
\* its resolver being called by no later event.
C40_ConfigureResumesOnOwnTaskEnd ==
  /\ [][\A c \in Configures :
          (configures[c].phase = "task" /\ configures'[c].phase # "task")
            => configures[c].process = "running" /\ configures'[c].process = "ended"]_vars
  /\ [](\A c \in Configures :
          configures[c].phase = "task" => configures[c].process = "running")

(***************************************************************************)
(* RunAllLiveSpec: a controller whose first refresh has returned gets one  *)
(* runAll and no other command; what was started returns: every task       *)
(* launch resolves, every process exits, with success or not, and every    *)
(* settle-wait ends, whatever the diagnostics hold.                        *)
(***************************************************************************)
NextRunAllLive ==
  \/ RunAllOnceStep
  \/ TaskLaunchedStep
  \/ TaskProcessEndStep
  \/ DiagnosticsSettledAnyStep
  \/ SilentProcessEndStep

\* Weak fairness of the four continuations of the scheduler, written with
\* the condition under which each is enabled: an execution stands at its
\* await.
RunAllFairness ==
  /\ ([]<>~Awaits("launching") \/ []<><<TaskLaunchedStep>>_vars)
  /\ ([]<>~Awaits("task") \/ []<><<TaskProcessEndStep>>_vars)
  /\ ([]<>~Awaits("settling") \/ []<><<DiagnosticsSettledAnyStep>>_vars)
  /\ ([]<>~Awaits("silent") \/ []<><<SilentProcessEndStep>>_vars)

RunAllLiveSpec == CommandInit /\ [][NextRunAllLive]_vars /\ RunAllFairness

\* Every available (module,target) of the store has one completed execution
\* and nothing is queued or under way.
RunAllFinished ==
  /\ \A k \in StoreKeys :
       AvailableIn(modules, k.module, k.target) =>
         Cardinality(Completed(getKey(k.module, k.target))) = 1
  /\ pending = <<>>
  /\ Started = {}

OtherModule == "a1"
\* The task definitions of the other dashboard's target tasks.
OtherDefinitions ==
  {[module |-> moduleId, target |-> t] : moduleId \in Modules \cup {OtherModule}, t \in Targets}

\* handleTaskEnd for the end of a task process this runner did not start,
\* when it does not come to the await of resolveDiagnosticsStatus.
handleTaskEndOfOther(s, definition, exitCode, current) ==
  LET key == getKey(definition.module, definition.target)
      s1 == [s EXCEPT !.running = Del(@, key)]
      output == IF Has(s1.taskOutput, key) THEN s1.taskOutput[key] ELSE <<>>
      status == IF exitCode = 0 THEN "success" ELSE "failed"
      status2 == IF status = "success" /\ output # <<>>
                   THEN resolveOutputStatus(0, output) ELSE status
      close == /\ status2 = "success"
               /\ Has(s1.autoCloseOnSuccess, key) /\ s1.autoCloseOnSuccess[key]
               /\ closeTaskTerminal(s1, key)
      s2 == Fire(s1, [moduleId |-> key[1], target |-> key[2],
                      status |-> status2, exitCode |-> exitCode])
  IN  kick([s2 EXCEPT !.modulePaths = Del(@, key),
                      !.runStartedAt = Del(@, key),
                      !.autoCloseOnSuccess = Del(@, key),
                      !.taskOutput = Del(@, key),
                      !.ended = [kind |-> "other", exec |-> 0, exitCode |-> exitCode,
                                 output |-> output, errors |-> current.errors,
                                 warnings |-> current.warnings, closed |-> close]])

\* terminateAllRunnerTasks: terminate() on every execution of a target task
\* the window has, whichever runner started it.
terminateAllRunnerTasks(s) ==
  [s EXCEPT !.execs = [e \in DOMAIN s.execs |->
                         IF s.execs[e].phase = "task"
                           THEN [s.execs[e] EXCEPT !.terminated = TRUE]
                           ELSE s.execs[e]]]

\* onDidEndTaskProcess for a task of the other dashboard's runner.
OtherTaskProcessEnd(definition, exitCode) ==
  /\ ~(exitCode = 0 /\ Has(modulePaths, getKey(definition.module, definition.target)))
  /\ Commit(handleTaskEndOfOther(Runner, definition, exitCode, NoDiagnostics))

\* clearAllTasks is issued to the other dashboard's controller.
OtherClearAllTasks ==
  /\ \E e \in Execs : execs[e].phase = "task" /\ ~execs[e].terminated
  /\ Commit(terminateAllRunnerTasks(Runner))

OtherTaskProcessEndStep ==
  \E definition \in OtherDefinitions, exitCode \in PlainExitCodes :
    OtherTaskProcessEnd(definition, exitCode)

NextDashboards ==
  \/ RunAllOnceStep
  \/ RunTargetOnceStep
  \/ CmdStopAll
  \/ TaskLaunchedStep
  \/ TaskProcessEndStep
  \/ DiagnosticsSettledStep
  \/ SilentProcessEndStep
  \/ OtherTaskProcessEndStep
  \/ OtherClearAllTasks

DashboardsSpec == OneModuleInit /\ [][NextDashboards]_vars

\* C31: dashboards do not interfere.  No command issued to the other
\* dashboard's controller and no process-exit event of a task the other
\* dashboard's scheduler started terminates an execution of this dashboard,
\* emits an update from this scheduler, changes this state store or this
\* pending queue, or dispatches here; the `running` map, which the cap is
\* tested against, holds this runner's executions only.
C31_DashboardsDoNotInterfere ==
  /\ [][(OtherTaskProcessEndStep \/ OtherClearAllTasks) =>
          /\ fired' = <<>>
          /\ execs' = execs
          /\ pending' = pending
          /\ running' = running
          /\ modules' = modules]_vars
  /\ [](\A key \in DOMAIN running :
          \E e \in Execs : ExecKey(e) = key /\ execs[e].phase # "done")

(***************************************************************************)
(* waitForDiagnosticsSettled.  The call sets the initial and the maximum   *)
(* timer and subscribes to onDidChangeDiagnostics; what runs then are the  *)
(* listener and the callbacks of the three timers.  Time passes between    *)
(* the handlers; a timer's callback runs when the timer is due.            *)
(***************************************************************************)
initialWaitMs == 1000
quietWindowMs == 300
maxWaitMs == 5000

\* cleanup(): the timers cleared, the listener disposed, the promise
\* resolved.
cleanup(w) ==
  [w EXCEPT !.quietTimeout = NoTimeout,
            !.maxTimeout = NoTimeout,
            !.initialTimeout = NoTimeout,
            !.listening = FALSE,
            !.resolved = @ + 1,
            !.endedAt = IF @ = NoTimeout THEN w.time ELSE @]

bumpQuietTimer(w) == [w EXCEPT !.quietTimeout = w.time + quietWindowMs]

\* A listener that takes every event for one of the module path.
onDidChangeDiagnostics_anyPath(w, inModule) ==
  LET w1 == [w EXCEPT !.sawChange = TRUE]
  IN  IF w.time >= w.startedAt THEN bumpQuietTimer(w1) ELSE w1

\* The listener of onDidChangeDiagnostics; inModule: one of event.uris is
\* the module root or lies under it.
onDidChangeDiagnostics(w, inModule) ==
  IF inModule
    THEN LET w1 == [w EXCEPT !.sawChange = TRUE]
         IN  IF w.time >= w.startedAt THEN bumpQuietTimer(w1) ELSE w1
    ELSE w

\* waitForDiagnosticsSettled(modulePath, startedAt) to its return.
waitForDiagnosticsSettled(startedAt) ==
  [NoSettleWait EXCEPT !.called = TRUE,
                       !.startedAt = startedAt,
                       !.listening = TRUE,
                       !.initialTimeout = initialWaitMs,
                       !.maxTimeout = maxWaitMs]

\* The timers that are set.
Timeouts(w) == {w.quietTimeout, w.maxTimeout, w.initialTimeout} \ {NoTimeout}
Min(set) == CHOOSE x \in set : \A y \in set : x <= y

\* The handler of this step has left the wait as `w`.
Settle(w, heard) == Commit([Runner EXCEPT !.settleWait = [w EXCEPT !.heard = heard]])

\* A diagnostics-changed event while the listener is subscribed.
DiagnosticsChanged(inModule) ==
  /\ settleWait.listening
  /\ Settle([onDidChangeDiagnostics(settleWait, inModule)
               EXCEPT !.lastChange = IF inModule THEN settleWait.time ELSE @],
            IF inModule THEN "module" ELSE "other")

InitialTimeout ==
  /\ settleWait.initialTimeout # NoTimeout
  /\ settleWait.time >= settleWait.initialTimeout
  /\ LET w == [settleWait EXCEPT !.initialTimeout = NoTimeout]
     IN  Settle(IF ~w.sawChange THEN cleanup(w) ELSE w, "none")

QuietTimeout ==
  /\ settleWait.quietTimeout # NoTimeout
  /\ settleWait.time >= settleWait.quietTimeout
  /\ Settle(cleanup([settleWait EXCEPT !.quietTimeout = NoTimeout]), "none")

MaxTimeout ==
  /\ settleWait.maxTimeout # NoTimeout
  /\ settleWait.time >= settleWait.maxTimeout
  /\ Settle(cleanup([settleWait EXCEPT !.maxTimeout = NoTimeout]), "none")

\* Time passes, up to the moment the next timer is due.
Tick ==
  /\ settleWait.called
  /\ settleWait.time <= maxWaitMs
  /\ \A due \in Timeouts(settleWait) : settleWait.time < due
  /\ Settle([settleWait EXCEPT !.time = Min(Timeouts(settleWait) \cup {@ + TickMs})], "none")

\* The run started at the moment of the call or before it.
SettleInit ==
  \E startedAt \in {0 - TickMs, 0} :
    Constructed([NewController(1) EXCEPT !.settleWait = waitForDiagnosticsSettled(startedAt)])

DiagnosticsChangedStep == \E inModule \in BOOLEAN : DiagnosticsChanged(inModule)

NextSettle ==
  \/ DiagnosticsChangedStep
  \/ InitialTimeout
  \/ QuietTimeout
  \/ MaxTimeout
  \/ Tick

\* Time passes and a timer that is due fires.
TimePasses == InitialTimeout \/ QuietTimeout \/ MaxTimeout \/ Tick

SettleSpec == SettleInit /\ [][NextSettle]_vars /\ WF_vars(TimePasses)

\* When the wait is to end: at the initial window when no event for the
\* module path has come, else a quiet window after the last one, and at the
\* hard ceiling at the latest.
SettleEnd(w) ==
  IF w.lastChange = NoTimeout THEN initialWaitMs
  ELSE Min({w.lastChange + quietWindowMs, maxWaitMs})

\* C34: the diagnostics settle-wait always ends, exactly once, and no later
\* than the hard ceiling after it started, whatever number and timing of
\* diagnostics-changed signals arrive: at the initial window if no signal
\* for the module path arrived by then, otherwise a full quiet window after
\* the last signal for the module path, or at the hard ceiling, whichever
\* is earlier; a signal for a path outside the module changes nothing.
C34_SettleWaitEnds ==
  /\ <>(settleWait.resolved = 1)
  /\ [](/\ settleWait.resolved <= 1
        /\ settleWait.resolved = 0 =>
              settleWait.listening /\ settleWait.time <= SettleEnd(settleWait)
        /\ settleWait.resolved = 1 =>
              /\ settleWait.endedAt = SettleEnd(settleWait)
              /\ settleWait.endedAt <= maxWaitMs
              /\ ~settleWait.listening
              /\ Timeouts(settleWait) = {})
  /\ [][settleWait'.heard = "other" =>
          settleWait' = [settleWait EXCEPT !.heard = "other"]]_vars

\* The wait has ended at the hard ceiling, the signals for the module path
\* having kept the quiet window open until then.
C34_Witness ==
  /\ settleWait.resolved = 1
  /\ settleWait.endedAt = maxWaitMs
  /\ settleWait.lastChange + quietWindowMs > maxWaitMs

====
